---- MODULE Spec2Model ----
(***************************************************************************)
(* State-machine model of hk_matrix/logic/core.py: the step-recording      *)
(* engines rref_steps, upper_triangular_steps, determinant_steps,          *)
(* inverse_steps, transpose_steps, add_steps, sub_steps, multiply_steps    *)
(* and cramer_steps, and the text parser parse_matrix.                      *)
(*                                                                         *)
(* Numbers.  The engines receive numpy float arrays.  An array is a matrix *)
(* of integers with a unit: the entry x of an array of unit u is the float *)
(* that Python prints as the decimal x / u.  On the integer-valued floats  *)
(* (unit 1, Entries) Rational(x), Rational(str(x)) and float arithmetic    *)
(* are exact and agree; on a float such as 0.1 (unit 10, FloatEntries)     *)
(* Rational(x) is the binary value 3602879701896397 / 2^55 of the float    *)
(* and Rational(str(x)) the decimal 1 / 10.  A sympy Rational is exact, in *)
(* lowest terms with a positive denominator, of any size.                  *)
(*                                                                         *)
(* Objects.  sympy matrices are mutable objects: heap is the object store  *)
(* (object k is heap[k]), M is the reference of the working matrix and a   *)
(* step of the log holds the reference of its snapshot.  Rows, columns and *)
(* the loop variables r, c, piv, i, j are 0-based as in the source; the    *)
(* row numbers inside a description are 1-based as the source prints them. *)
(* Two invocations running side by side allocate in the same store; peer   *)
(* holds the locals of the second one.                                     *)
(***************************************************************************)
EXTENDS Integers, Sequences, FiniteSets, TLC

\* Largest number of rows and of columns of an input matrix.
MaxDim == 2

\* The values an entry of an input array of unit 1 takes: the floats 0.0,
\* 1.0 and 2.0.
Entries == {0, 1, 2}

\* The values an entry of an input array of unit 10 takes: the floats 0.1,
\* 0.3, 1.0 and 3.0.
FloatEntries == {1, 3, 10, 30}

(***************************************************************************)
(* Natural numbers of any size (Python int, the numerator and denominator  *)
(* of a sympy Rational): the sequence of the digits in base Base, the      *)
(* least significant first, without leading zeros; zero is <<0>>.          *)
(***************************************************************************)
Base == 10000

Abs(x) == IF x < 0 THEN -x ELSE x

\* F(x) on the value of x, and F(x, y) on the values of x and y: each value
\* is computed once.
OnValue(F(_), x) == CHOOSE v \in {F(p) : p \in {x}} : TRUE
OnValues(F(_, _), x, y) == CHOOSE v \in {F(p[1], p[2]) : p \in {<<x, y>>}} : TRUE

RECURSIVE Gcd(_, _)
Gcd(a, b) == IF b = 0 THEN a ELSE Gcd(b, a % b)

RECURSIVE ToLimbs(_)
ToLimbs(n) == IF n < Base THEN <<n>> ELSE <<n % Base>> \o ToLimbs(n \div Base)

LZero == <<0>>
Limb(a, k) == IF k <= Len(a) THEN a[k] ELSE 0

\* a without its leading zeros.
Trimmed(a) ==
    IF \A k \in 1..Len(a) : a[k] = 0 THEN LZero
    ELSE SubSeq(a, 1, CHOOSE k \in 1..Len(a) :
                          a[k] # 0 /\ \A j \in (k + 1)..Len(a) : a[j] = 0)
LTrim(a) == OnValue(Trimmed, a)

\* -1, 0 or 1 as a < b, a = b or a > b.
RECURSIVE LCmpFrom(_, _, _)
LCmpFrom(a, b, k) ==
    IF k = 0 THEN 0
    ELSE IF a[k] # b[k] THEN (IF a[k] < b[k] THEN -1 ELSE 1)
    ELSE LCmpFrom(a, b, k - 1)
Compared(a, b) ==
    IF Len(a) # Len(b) THEN (IF Len(a) < Len(b) THEN -1 ELSE 1)
    ELSE LCmpFrom(a, b, Len(a))
LCmp(a, b) == OnValues(Compared, a, b)

RECURSIVE LAddFrom(_, _, _, _)
LAddFrom(a, b, k, carry) ==
    IF k > Len(a) /\ k > Len(b) THEN (IF carry = 0 THEN <<>> ELSE <<carry>>)
    ELSE LET t == Limb(a, k) + Limb(b, k) + carry
         IN  <<t % Base>> \o LAddFrom(a, b, k + 1, t \div Base)
Plus(a, b) == LTrim(LAddFrom(a, b, 1, 0))
LAdd(a, b) == OnValues(Plus, a, b)

\* a - b for a >= b.
RECURSIVE LSubFrom(_, _, _, _)
LSubFrom(a, b, k, borrow) ==
    IF k > Len(a) THEN <<>>
    ELSE LET t == a[k] - Limb(b, k) - borrow
         IN  IF t < 0 THEN <<t + Base>> \o LSubFrom(a, b, k + 1, 1)
             ELSE <<t>> \o LSubFrom(a, b, k + 1, 0)
Minus(a, b) == LTrim(LSubFrom(a, b, 1, 0))
LSub(a, b) == OnValues(Minus, a, b)

\* a times the digit m.
RECURSIVE LScaleFrom(_, _, _, _)
LScaleFrom(a, m, k, carry) ==
    IF k > Len(a) THEN (IF carry = 0 THEN <<>> ELSE <<carry>>)
    ELSE LET t == a[k] * m + carry
         IN  <<t % Base>> \o LScaleFrom(a, m, k + 1, t \div Base)
Scaled(a, m) == LTrim(LScaleFrom(a, m, 1, 0))
LScale(a, m) == OnValues(Scaled, a, m)

\* The sum of the products a[i] * b[k + 1 - i], i from `from` on: the column k
\* of the long multiplication.
RECURSIVE Column(_, _, _, _)
Column(a, b, k, from) ==
    IF from > Len(a) \/ from > k THEN 0
    ELSE (IF k + 1 - from <= Len(b) THEN a[from] * b[k + 1 - from] ELSE 0)
             + Column(a, b, k, from + 1)

\* The columns from k on, carried over into digits.
RECURSIVE Carried(_, _, _, _)
Carried(a, b, k, carry) ==
    IF k > Len(a) + Len(b) - 1 THEN ToLimbs(carry)
    ELSE LET t == Column(a, b, k, 1) + carry
         IN  <<t % Base>> \o Carried(a, b, k + 1, t \div Base)
Times(a, b) == LTrim(Carried(a, b, 1, 0))
LMul(a, b) == OnValues(Times, a, b)

\* The greatest digit from + step * x, x < 22, with b * digit <= rem, when
\* `from` is such a digit and from + step * 22 is not.
Fits(b, d, rem) == d < Base /\ LCmp(LScale(b, d), rem) <= 0
Largest(b, rem, from, step) ==
    from + step * (CHOOSE x \in 0..21 :
                       \A k \in {0, 1} :
                           Fits(b, from + step * (x + k), rem) <=> (k = 0))

\* The greatest digit d >= from with b * d <= rem, for rem < b * Base, found
\* in steps of `step`, then of step / 22, down to steps of 1.
RECURSIVE DigitFrom(_, _, _, _)
DigitFrom(rem, b, from, step) ==
    IF step = 0 THEN from
    ELSE DigitFrom(rem, b, Largest(b, rem, from, step), step \div 22)
Digit(rem, b) == DigitFrom(rem, b, 0, 484)

\* Long division of the digits a[k], ..., a[1] after the remainder rem < b;
\* q collects the digits of the quotient.
RECURSIVE LDivFrom(_, _, _, _, _)
LDivFrom(a, b, k, rem, q) ==
    IF k = 0 THEN [q |-> LTrim(q), r |-> rem]
    ELSE OnValue(LAMBDA cur :
             OnValue(LAMBDA d : LDivFrom(a, b, k - 1, LSub(cur, LScale(b, d)),
                                         <<d>> \o q),
                     Digit(cur, b)),
             LTrim(<<a[k]>> \o rem))

\* divmod(a, b) for b > 0: the leading Len(b) - 1 digits of a are below b.
DivMod(a, b) ==
    IF LCmp(a, b) < 0 THEN [q |-> LZero, r |-> a]
    ELSE LDivFrom(a, b, Len(a) - Len(b) + 1,
                  LTrim(SubSeq(a, Len(a) - Len(b) + 2, Len(a))), <<>>)
LDivMod(a, b) == OnValues(DivMod, a, b)

\* One step of Euclid's algorithm on the pair p, and k of them.
EuclidStep(a, b) == IF b = LZero THEN <<a, b>> ELSE <<b, LDivMod(a, b).r>>
GcdStep(p) == OnValues(EuclidStep, p[1], p[2])

RECURSIVE GcdSteps(_, _)
GcdSteps(p, k) == IF k = 0 THEN p ELSE GcdStep(GcdSteps(p, k - 1))

RECURSIVE GcdOfPair(_)
GcdOfPair(p) == IF p[2] = LZero THEN p[1] ELSE GcdOfPair(GcdSteps(p, 8))
LGcd(a, b) == OnValues(LAMBDA x, y : GcdOfPair(<<x, y>>), a, b)

RECURSIVE LPow2(_)
LPow2(e) ==
    IF e = 0 THEN <<1>>
    ELSE IF e >= 13 THEN LScale(LPow2(e - 13), 8192)
    ELSE LScale(LPow2(e - 1), 2)

(***************************************************************************)
(* Exact rational arithmetic (sympy.Rational): lowest terms, positive      *)
(* denominator.  A rational whose numerator and denominator are both below *)
(* Base is the pair <<numerator, denominator>>; any other is               *)
(* <<sign, k>> \o numerator \o denominator, sign 1 or -1, the numerator    *)
(* and the denominator as digit sequences, the numerator of k digits.      *)
(***************************************************************************)
\* sympy's zoo, the value of a division by zero (no exception is raised).
Zoo == <<1, 0>>

\* The rational n / d of two integers.
Rat(n, d) ==
    IF d = 0 THEN Zoo
    ELSE LET g == Gcd(Abs(n), Abs(d))
             s == IF d < 0 THEN -1 ELSE 1
             p == (s * n) \div g
             q == (s * d) \div g
         IN  IF Abs(p) < Base /\ q < Base THEN <<p, q>>
             ELSE <<IF p < 0 THEN -1 ELSE 1, Len(ToLimbs(Abs(p)))>>
                      \o ToLimbs(Abs(p)) \o ToLimbs(q)

IsSmall(x) == Len(x) = 2
BothSmall(x, y) == Len(x) + Len(y) = 4
SignOf(x) == IF IsSmall(x) THEN (IF x[1] < 0 THEN -1 ELSE 1) ELSE x[1]
NumOf(x) == IF IsSmall(x) THEN ToLimbs(Abs(x[1])) ELSE SubSeq(x, 3, 2 + x[2])
DenOf(x) == IF IsSmall(x) THEN ToLimbs(x[2]) ELSE SubSeq(x, 3 + x[2], Len(x))

\* The rational sign * N / D of two naturals of any size.
\* sign * p / q for coprime p and q.
Packed(sign, p, q) ==
    IF Len(p) = 1 /\ Len(q) = 1 THEN <<sign * p[1], q[1]>>
    ELSE <<sign, Len(p)>> \o p \o q
Divided(sign, N, D, g) ==
    OnValue(LAMBDA f : Packed(sign, f[1], f[2]),
            [k \in {1, 2} |-> LDivMod(<<N, D>>[k], g).q])

Lowest(sign, N, D) ==
    IF D = LZero THEN Zoo
    ELSE OnValue(LAMBDA g : Divided(sign, N, D, g), LGcd(N, D))
BigRat(sign, N, D) == OnValues(LAMBDA x, y : Lowest(sign, x, y), N, D)

RZero == <<0, 1>>
ROne == <<1, 1>>
RNeg(x) == IF IsSmall(x) THEN <<-x[1], x[2]>> ELSE [x EXCEPT ![1] = -x[1]]

SignedSum(sx, a, sy, b) ==
    IF sx = sy THEN <<sx, LAdd(a, b)>>
    ELSE OnValue(LAMBDA c : IF c >= 0 THEN <<sx, LSub(a, b)>>
                            ELSE <<sy, LSub(b, a)>>,
                 LCmp(a, b))
Sum(x, y) ==
    IF BothSmall(x, y) THEN Rat(x[1] * y[2] + y[1] * x[2], x[2] * y[2])
    ELSE OnValue(LAMBDA t : BigRat(t[1], t[2], LMul(DenOf(x), DenOf(y))),
                 SignedSum(SignOf(x), LMul(NumOf(x), DenOf(y)),
                           SignOf(y), LMul(NumOf(y), DenOf(x))))

Difference(x, y) ==
    IF BothSmall(x, y) THEN Rat(x[1] * y[2] - y[1] * x[2], x[2] * y[2])
    ELSE Sum(x, RNeg(y))
Product(x, y) ==
    IF BothSmall(x, y) THEN Rat(x[1] * y[1], x[2] * y[2])
    ELSE BigRat(SignOf(x) * SignOf(y), LMul(NumOf(x), NumOf(y)),
                LMul(DenOf(x), DenOf(y)))
Quotient(x, y) ==
    IF BothSmall(x, y) THEN Rat(x[1] * y[2], x[2] * y[1])
    ELSE BigRat(SignOf(x) * SignOf(y), LMul(NumOf(x), DenOf(y)),
                LMul(DenOf(x), NumOf(y)))

RAdd(x, y) == OnValues(Sum, x, y)
RSub(x, y) == OnValues(Difference, x, y)
RMul(x, y) == OnValues(Product, x, y)
RDiv(x, y) == OnValues(Quotient, x, y)

(***************************************************************************)
(* Floats.  An array of floats is a matrix of integers X together with its *)
(* unit u, a power of ten: the entry x stands for the float that Python    *)
(* prints as the decimal x / u (x = 1, u = 10 is the float 0.1; u = 1      *)
(* gives the integer-valued floats).  The value of a float is the binary   *)
(* fraction nearest to that decimal with a significand of MantissaBits     *)
(* bits, ties to even.                                                     *)
(***************************************************************************)
MantissaBits == 53

\* The least e with N * 2^e >= Low.
RECURSIVE BinaryExponent(_, _)
BinaryExponent(N, Low) ==
    IF LCmp(N, Low) >= 0 THEN 0
    ELSE IF LCmp(LScale(N, 8192), Low) < 0
         THEN 13 + BinaryExponent(LScale(N, 8192), Low)
         ELSE 1 + BinaryExponent(LScale(N, 2), Low)

\* The quotient dm.q of a division by den, rounded to the nearest integer
\* and to the even one of two nearest, as its remainder dm.r tells.
RoundHalfEven(dm, den) ==
    OnValue(LAMBDA twice : IF twice > 0 \/ (twice = 0 /\ dm.q[1] % 2 = 1)
                           THEN LAdd(dm.q, <<1>>) ELSE dm.q,
            LCmp(LAdd(dm.r, dm.r), den))
\* The 53-bit mantissa of num / den, which is mantissa / 2^expo rounded.
Mantissa(num, den, expo) ==
    OnValue(LAMBDA dm : RoundHalfEven(dm, den),
            LDivMod(LMul(num, LPow2(expo)), den))
\* float("x/u") for a decimal x / u that is not an integer: its exact value.
NearestDouble(x, u) ==
    OnValues(LAMBDA num, den :
                 OnValue(LAMBDA expo : BigRat(IF x < 0 THEN -1 ELSE 1,
                                              Mantissa(num, den, expo), LPow2(expo)),
                         BinaryExponent(num, LMul(den, LPow2(MantissaBits - 1)))),
             ToLimbs(Abs(x)), ToLimbs(u))

\* Rational(x) of the float x / u: the exact value of the float.
Rational(x, u) == IF x % u = 0 THEN Rat(x \div u, 1) ELSE NearestDouble(x, u)

\* Rational(str(x)) of the float x / u: str prints the decimal x / u (an
\* integer-valued float as "x.0"), and Rational reads that decimal.
RationalOfStr(x, u) == Rat(x, u)

(***************************************************************************)
(* Matrices: a sequence of rows, each a sequence of entries.               *)
(***************************************************************************)
NRows(X) == Len(X)
NCols(X) == IF Len(X) = 0 THEN 0 ELSE Len(X[1])
At(X, i, j) == X[i + 1][j + 1]

\* Matrix([[Rational(x) for x in row] for row in A.tolist()])
RationalMatrix(X, u) ==
    [a \in 1..NRows(X) |-> [b \in 1..NCols(X) |-> Rational(X[a][b], u)]]

\* Matrix.eye(n)
Eye(n) == [a \in 1..n |-> [b \in 1..n |-> IF a = b THEN ROne ELSE RZero]]

\* RowJoin with the two blocks in the other order.
RowJoin_Reversed(X, Y) == [a \in 1..NRows(X) |-> Y[a] \o X[a]]

\* X.row_join(Y)
RowJoin(X, Y) == [a \in 1..NRows(X) |-> X[a] \o Y[a]]

\* X[:, :n] and X[:, n:]
LeftBlock(X, n) == [a \in 1..NRows(X) |-> SubSeq(X[a], 1, n)]
RightBlock(X, n) == [a \in 1..NRows(X) |-> SubSeq(X[a], n + 1, NCols(X))]

\* RowSwap that overwrites row p with row q and keeps row q.
RowSwap_Overwrite(X, p, q) ==
    [a \in 1..NRows(X) |-> IF a = p + 1 THEN X[q + 1] ELSE X[a]]

\* X.row_swap(p, q)
RowSwap(X, p, q) ==
    [a \in 1..NRows(X) |->
        IF a = p + 1 THEN X[q + 1] ELSE IF a = q + 1 THEN X[p + 1] ELSE X[a]]

\* RowDivide with the row multiplied by the factor instead of divided.
RowDivide_Multiply(X, row, factor) ==
    [X EXCEPT ![row + 1] = [b \in 1..NCols(X) |-> RMul(X[row + 1][b], factor)]]

\* X.row_op(row, lambda v, j: v / factor)
RowDivide(X, row, factor) ==
    [X EXCEPT ![row + 1] = [b \in 1..NCols(X) |-> RDiv(X[row + 1][b], factor)]]

\* X.row_op(i, lambda v, j: v - factor * X[r, j])
RowEliminate(X, row, factor, src) ==
    [X EXCEPT ![row + 1] =
        [b \in 1..NCols(X) |-> RSub(X[row + 1][b], RMul(factor, X[src + 1][b]))]]

\* Transpose with the .T left out.
Transpose_Identity(X) == X

\* X.T
Transpose(X) == [b \in 1..NCols(X) |-> [a \in 1..NRows(X) |-> X[a][b]]]

\* X with row p and column q (1-based) removed.
Minor(X, p, q) ==
    [a \in 1..(NRows(X) - 1) |->
        [b \in 1..(NCols(X) - 1) |->
            X[IF a < p THEN a ELSE a + 1][IF b < q THEN b ELSE b + 1]]]

\* The determinant of a square X by cofactor expansion along the first row
\* (the value of sympy's X.det()).
RECURSIVE Det(_)
RECURSIVE DetTerms(_, _)
DetTerms(X, q) ==
    IF q = 0 THEN RZero
    ELSE LET term == RMul(X[1][q], Det(Minor(X, 1, q)))
         IN  RAdd(DetTerms(X, q - 1), IF q % 2 = 1 THEN term ELSE RNeg(term))
Det(X) == IF NRows(X) = 1 THEN X[1][1] ELSE DetTerms(X, NCols(X))

\* The sum of X[a][k] * Y[k][b] for k = 1..m, and the product matrix X * Y.
RECURSIVE Dot(_, _, _, _, _)
Dot(X, Y, a, b, m) ==
    IF m = 0 THEN RZero ELSE RAdd(Dot(X, Y, a, b, m - 1), RMul(X[a][m], Y[m][b]))
MatMul(X, Y) ==
    [a \in 1..NRows(X) |-> [b \in 1..NCols(Y) |-> Dot(X, Y, a, b, NCols(X))]]

(***************************************************************************)
(* The object store and the step log.                                      *)
(***************************************************************************)
\* A new matrix object holding X; its reference is the new length of the store.
Alloc(h, X) == Append(h, X)
NewRef(h) == Len(h) + 1

\* Copy without the copy: the step would hold the live object itself.
Copy_Alias(h, ref) == [heap |-> h, ref |-> ref]

\* X.copy(): a new object with the entries of object ref; the store with it
\* and its reference.
Copy(h, ref) == [heap |-> Alloc(h, h[ref]), ref |-> NewRef(h)]

\* The description of a step, one shape for every engine: the kind of the
\* text, the two 1-based row (or cell) numbers it prints and the number it
\* prints (a factor, a cell value or a determinant).
Desc(kind, a, b, f) == [kind |-> kind, a |-> a, b |-> b, f |-> f]
Plain(kind) == Desc(kind, 0, 0, RZero)

\* steps.append((desc, X.copy())) on the invocation state s, X the object ref.
RecordOf(s, desc, ref) ==
    LET copy == Copy(s.heap, ref)
    IN  [s EXCEPT !.heap = copy.heap,
                  !.steps = Append(s.steps, [desc |-> desc, ref |-> copy.ref])]

\* steps.append((desc, M.copy())), M the working matrix.
Record(s, desc) == RecordOf(s, desc, s.M)

\* The working matrix of s, and s with its working matrix object set to X.
Work(s) == s.heap[s.M]
Mutate(s, X) == [s EXCEPT !.heap[s.M] = X]

(***************************************************************************)
(* One invocation of an engine.  Its state is a record s:                  *)
(*   op, A, B      the engine called and its arguments                     *)
(*   unit          the unit of the arrays A and B                          *)
(*   heap, M       the matrix objects and the reference of the working one *)
(*   steps         the log: a sequence of [desc, ref]                      *)
(*   rows, cols    the bounds of the row and column loops                  *)
(*   bndim         the number of dimensions of the array b (cramer_steps), *)
(*                 a 1-dimensional b being held as the one row <<b>>       *)
(*   r, c, piv, i, j, swaps, n, idx, coeff, vec, detA, det_columnas,       *)
(*   solucion_exacta, solucion   the locals of the same names (coeff and   *)
(*                 vec are references)                                     *)
(*   text, stripped, arr   the argument of parse_matrix, its local s and   *)
(*                 the array it returns                                    *)
(*   pc            the statement the invocation is at                      *)
(*   ret           "none" while running, then what the call gave back      *)
(***************************************************************************)
RowEngines == {"rref", "upper_triangular", "determinant", "inverse"}

\* The engines that divide the pivot row and clear the whole pivot column.
Reduced(op) == op \in {"rref", "inverse"}

Call(op, A, B, bndim) ==
    [op |-> op, A |-> A, B |-> B, bndim |-> bndim, unit |-> 1, heap |-> <<>>, M |-> 0,
     steps |-> <<>>, rows |-> 0, cols |-> 0, n |-> 0, r |-> 0, c |-> 0, piv |-> 0,
     i |-> 0, j |-> 0, swaps |-> 0, coeff |-> 0, vec |-> 0, idx |-> 0,
     detA |-> RZero, det_columnas |-> <<>>, solucion_exacta |-> <<>>,
     solucion |-> "unset", text |-> <<>>, stripped |-> <<>>, arr |-> <<>>,
     pc |-> "begin", ret |-> "none"]

\* The same call on arrays of unit u.
FloatCall(op, A, B, bndim, u) == [Call(op, A, B, bndim) EXCEPT !.unit = u]

\* return steps
Return(s) == [s EXCEPT !.pc = "done", !.ret = "steps"]

\* Matrix(A.tolist()): the entries stay floats; each is written as its value.
FloatMatrix(X, u) ==
    [a \in 1..NRows(X) |-> [b \in 1..NCols(X) |-> Rational(X[a][b], u)]]

\* StartReduce with a memoised constructor: when the store already holds a
\* matrix equal to X, that object becomes the working matrix.
StartReduce_Cached(s, X) ==
    LET same == {k \in 1..Len(s.heap) : s.heap[k] = X}
        s1 == [s EXCEPT !.heap = IF same = {} THEN Alloc(s.heap, X) ELSE s.heap,
                        !.M = IF same = {} THEN NewRef(s.heap)
                              ELSE CHOOSE k \in same : \A m \in same : k <= m,
                        !.rows = NRows(X), !.cols = NCols(X),
                        !.r = 0, !.c = 0, !.pc = "column"]
    IN  Record(s1, Plain("initial"))

\* The start of a reduction of the rational matrix X: the working matrix, the
\* initial step and the locals rows, cols and r.
StartReduce(s, X) ==
    LET s1 == [s EXCEPT !.heap = Alloc(s.heap, X), !.M = NewRef(s.heap),
                        !.rows = NRows(X), !.cols = NCols(X),
                        !.r = 0, !.c = 0, !.pc = "column"]
    IN  Record(s1, Plain("initial"))

\* rref_steps, lines 73-76; upper_triangular_steps, lines 152-155.
BeginReduce(s) == StartReduce(s, RationalMatrix(s.A, s.unit))

\* BeginDeterminant without the test for a square matrix.
BeginDeterminant_NoCheck(s) == [BeginReduce(s) EXCEPT !.swaps = 0]

\* determinant_steps, lines 276-283.
BeginDeterminant(s) ==
    LET s1 == BeginReduce(s)
    IN  IF s1.rows # s1.cols
        THEN Return(Record(s1, Plain("not_square")))
        ELSE [s1 EXCEPT !.swaps = 0]

\* inverse_steps, lines 185-191.
BeginInverse(s) ==
    IF NRows(s.A) # NCols(s.A)
    THEN Return([s EXCEPT !.heap = Alloc(s.heap, FloatMatrix(s.A, s.unit)),
                          !.steps = <<[desc |-> Plain("not_square"),
                                       ref |-> NewRef(s.heap)]>>])
    ELSE LET n == NRows(s.A)
             h1 == Alloc(s.heap, RationalMatrix(s.A, s.unit))
             h2 == Alloc(h1, RowJoin(h1[Len(h1)], Eye(n)))
             s1 == [s EXCEPT !.heap = h2, !.M = Len(h2), !.rows = n, !.cols = n,
                             !.r = 0, !.c = 0, !.pc = "column"]
         IN  Record(s1, Plain("initial"))

Begin(s) ==
    CASE s.op \in {"rref", "upper_triangular"} -> BeginReduce(s)
      [] s.op = "determinant" -> BeginDeterminant(s)
      [] s.op = "inverse" -> BeginInverse(s)

\* for c in range(cols): if r >= rows: break
LoopOver(s) == s.c >= s.cols \/ s.r >= s.rows

\* for i in range(r, rows): if M[i, c] != 0: piv = i; break
PivotRows(s) == {k \in s.r..(s.rows - 1) : At(Work(s), k, s.c) # RZero}

\* FirstPivot by partial pivoting: a row whose entry is largest in magnitude.
FirstPivot_Largest(s) ==
    CHOOSE k \in PivotRows(s) : \A m \in PivotRows(s) :
        LET x == At(Work(s), k, s.c)
            y == At(Work(s), m, s.c)
        IN  Abs(x[1]) * y[2] >= Abs(y[1]) * x[2]

FirstPivot(s) == CHOOSE k \in PivotRows(s) : \A m \in PivotRows(s) : k <= m

\* SkipColumn that stays on the same column.
SkipColumn_Stay(s) == [s EXCEPT !.c = s.c]

\* if piv is None: continue
SkipColumn(s) == [s EXCEPT !.c = s.c + 1]

\* FindPivot without the search: row r is taken as the pivot row.
FindPivot_NoSearch(s) == [s EXCEPT !.piv = s.r, !.pc = "swap"]

\* piv = i for the first row found; the swap test comes next.
FindPivot(s) == [s EXCEPT !.piv = FirstPivot(s), !.pc = "swap"]

\* AfterSwap with the division of the pivot row in every engine.
AfterSwap_AlwaysScale(s) == [s EXCEPT !.pc = "scale"]

\* The statement after the swap test: the division (rref, inverse) or the
\* elimination loop, which starts at row r + 1.
AfterSwap(s) ==
    IF Reduced(s.op) THEN [s EXCEPT !.pc = "scale"]
    ELSE [s EXCEPT !.pc = "eliminate", !.i = s.r + 1]

\* SwapRows without the count of the swaps.
SwapRows_NoCount(s) ==
    LET s1 == Mutate(s, RowSwap(Work(s), s.piv, s.r))
    IN  AfterSwap(Record(s1, Desc("swap", s.piv + 1, s.r + 1, RZero)))

\* M.row_swap(piv, r); steps.append(...); determinant_steps counts the swap.
SwapRows(s) ==
    LET s1 == Mutate(s, RowSwap(Work(s), s.piv, s.r))
        s2 == IF s.op = "determinant" THEN [s1 EXCEPT !.swaps = s.swaps + 1] ELSE s1
    IN  AfterSwap(Record(s2, Desc("swap", s.piv + 1, s.r + 1, RZero)))

\* if M[r, c] != 1: factor = M[r, c]; M.row_op(r, v / factor); steps.append(...)
ScaleRow(s) ==
    LET factor == At(Work(s), s.r, s.c)
        s1 == Mutate(s, RowDivide(Work(s), s.r, factor))
    IN  [Record(s1, Desc("scale", s.r + 1, 0, factor)) EXCEPT !.pc = "eliminate", !.i = 0]

SkipScale(s) == [s EXCEPT !.pc = "eliminate", !.i = 0]

\* Touches clearing only the rows below the pivot row in every engine.
Touches_Below(s) == s.i > s.r /\ At(Work(s), s.i, s.c) # RZero

\* The test of the elimination loop's body on row i.
Touches(s) ==
    IF Reduced(s.op)
    THEN s.i # s.r /\ At(Work(s), s.i, s.c) # RZero
    ELSE At(Work(s), s.i, s.c) # RZero

\* Factor without the division by the pivot entry in any engine.
Factor_NoDivision(s) == At(Work(s), s.i, s.c)

\* factor = M[i, c] (rref, inverse) or M[i, c] / M[r, c] (upper, determinant).
Factor(s) ==
    IF Reduced(s.op) THEN At(Work(s), s.i, s.c)
    ELSE RDiv(At(Work(s), s.i, s.c), At(Work(s), s.r, s.c))

\* Eliminate with the step recorded before the row is changed.
Eliminate_RecordFirst(s) ==
    LET factor == Factor(s)
        s1 == Record(s, Desc("eliminate", s.i + 1, s.r + 1, factor))
    IN  [Mutate(s1, RowEliminate(Work(s1), s.i, factor, s.r)) EXCEPT !.i = s.i + 1]

\* M.row_op(i, lambda v, j: v - factor * M[r, j]); steps.append(...)
Eliminate(s) ==
    LET factor == Factor(s)
        s1 == Mutate(s, RowEliminate(Work(s), s.i, factor, s.r))
    IN  [Record(s1, Desc("eliminate", s.i + 1, s.r + 1, factor)) EXCEPT !.i = s.i + 1]

SkipRow(s) == [s EXCEPT !.i = s.i + 1]

\* NextColumn without r += 1.
NextColumn_KeepRow(s) == [s EXCEPT !.c = s.c + 1, !.pc = "column"]

\* r += 1, and the column loop takes the next c.
NextColumn(s) == [s EXCEPT !.r = s.r + 1, !.c = s.c + 1, !.pc = "column"]

\* det = Rational(1); for i in range(rows): det *= M[i, i]
RECURSIVE DiagonalProduct(_, _)
DiagonalProduct(X, n) ==
    IF n = 0 THEN ROne ELSE RMul(DiagonalProduct(X, n - 1), X[n][n])

\* SignedDiagonal without the sign of the swaps.
SignedDiagonal_NoSign(s) == DiagonalProduct(Work(s), s.rows)

\* determinant_steps, lines 300-304.
SignedDiagonal(s) ==
    LET det == DiagonalProduct(Work(s), s.rows)
    IN  IF s.swaps % 2 = 1 THEN RNeg(det) ELSE det

\* LeftIsIdentity comparing the whole augmented matrix with the identity.
LeftIsIdentity_Whole(s) == Work(s) = Eye(s.rows)

\* inverse_steps, line 214: left == Matrix.eye(n)
LeftIsIdentity(s) == LeftBlock(Work(s), s.rows) = Eye(s.rows)

\* The last append of each row engine and its return.
Finish(s) ==
    CASE s.op \in {"rref", "upper_triangular"} -> Return(Record(s, Plain("result")))
      [] s.op = "determinant" ->
            Return(Record(s, Desc("determinant", 0, 0, SignedDiagonal(s))))
      [] s.op = "inverse" ->
            Return(Record(s, Plain(IF LeftIsIdentity(s) THEN "inverse_found"
                                                         ELSE "not_invertible")))

(***************************************************************************)
(* The statement a row engine is at, and the step it takes from there.     *)
(***************************************************************************)
CanSkipColumn(s) == s.pc = "column" /\ ~LoopOver(s) /\ PivotRows(s) = {}
CanFindPivot(s) == s.pc = "column" /\ ~LoopOver(s) /\ PivotRows(s) # {}
CanLoopExit(s) == s.pc = "column" /\ LoopOver(s)
CanSwapRows(s) == s.pc = "swap" /\ s.piv # s.r
CanKeepRow(s) == s.pc = "swap" /\ s.piv = s.r
\* CanScaleRow without the test M[r, c] != 1.
CanScaleRow_Always(s) == s.pc = "scale"

CanScaleRow(s) == s.pc = "scale" /\ At(Work(s), s.r, s.c) # ROne
CanSkipScale(s) == s.pc = "scale" /\ At(Work(s), s.r, s.c) = ROne
CanEliminate(s) == s.pc = "eliminate" /\ s.i < s.rows /\ Touches(s)
CanSkipRow(s) == s.pc = "eliminate" /\ s.i < s.rows /\ ~Touches(s)
CanNextColumn(s) == s.pc = "eliminate" /\ s.i >= s.rows
LoopExit(s) == [s EXCEPT !.pc = "finish"]

RowStep(s) ==
    CASE s.pc = "begin" -> Begin(s)
      [] CanSkipColumn(s) -> SkipColumn(s)
      [] CanFindPivot(s) -> FindPivot(s)
      [] CanLoopExit(s) -> LoopExit(s)
      [] CanSwapRows(s) -> SwapRows(s)
      [] CanKeepRow(s) -> AfterSwap(s)
      [] CanScaleRow(s) -> ScaleRow(s)
      [] CanSkipScale(s) -> SkipScale(s)
      [] CanEliminate(s) -> Eliminate(s)
      [] CanSkipRow(s) -> SkipRow(s)
      [] CanNextColumn(s) -> NextColumn(s)
      [] s.pc = "finish" -> Finish(s)


(***************************************************************************)
(* transpose_steps, add_steps, sub_steps and multiply_steps.  The result   *)
(* array C is a numpy array of floats, held in the store with its values   *)
(* as integers; M is its reference.  rows and cols are the locals r and c. *)
(***************************************************************************)
CellEngines == {"add", "sub", "multiply"}

\* An exception leaves the call: the log built so far is lost with the frame.
Raise(s, error) == [s EXCEPT !.pc = "done", !.ret = error]

\* np.zeros((r, c))
Zeros(p, q) == [a \in 1..p |-> [b \in 1..q |-> 0]]

\* steps.append((desc, Matrix(C.tolist()))): a new matrix of the values of C.
RecordArray(s, desc) ==
    [s EXCEPT !.heap = Alloc(s.heap, FloatMatrix(Work(s), s.unit)),
              !.steps = Append(s.steps, [desc |-> desc, ref |-> NewRef(s.heap)])]

\* transpose_steps, lines 178-181.
TransposeSteps(s) ==
    LET s1 == [s EXCEPT !.heap = Alloc(s.heap, FloatMatrix(s.A, s.unit)), !.M = NewRef(s.heap)]
        s2 == Record(s1, Plain("original"))
        s3 == [s2 EXCEPT !.heap = Alloc(s2.heap, Transpose(Work(s2)))]
    IN  Return(RecordOf(s3, Plain("transposed"), Len(s3.heap)))

\* add_steps, lines 103-105; sub_steps, lines 120-122; multiply_steps, lines 137-140.
BeginCells(s) ==
    LET p == NRows(s.A)
        q == IF s.op = "multiply" THEN NCols(s.B) ELSE NCols(s.A)
        s1 == [s EXCEPT !.heap = Alloc(s.heap, Zeros(p, q)), !.M = NewRef(s.heap),
                        !.rows = p, !.cols = q, !.n = NCols(s.A),
                        !.i = 0, !.j = 0, !.pc = "cell"]
    IN  RecordArray(s1, Plain("zeros"))

\* A[i, k] of a numpy array: an index past the end raises IndexError.
InRange(X, a, b) == a < NRows(X) /\ b < NCols(X)

\* The indices the cell (i, j) reads are all in range.
CellReadable(s) ==
    IF s.op = "multiply"
    THEN \A k \in 0..(s.n - 1) : InRange(s.A, s.i, k) /\ InRange(s.B, k, s.j)
    ELSE InRange(s.A, s.i, s.j) /\ InRange(s.B, s.i, s.j)

\* SumProducts with range(n - 1): the last term of the sum is left out.
RECURSIVE SumProducts_DropLast(_, _, _, _, _)
SumProducts_DropLast(X, Y, a, b, m) ==
    IF m <= 1 THEN 0
    ELSE SumProducts_DropLast(X, Y, a, b, m - 1) + At(X, a, m - 2) * At(Y, m - 2, b)

\* np.sum([A[i,k]*B[k,j] for k in range(n)])
RECURSIVE SumProducts(_, _, _, _, _)
SumProducts(X, Y, a, b, m) ==
    IF m = 0 THEN 0 ELSE SumProducts(X, Y, a, b, m - 1) + At(X, a, m - 1) * At(Y, m - 1, b)

\* CellValue with sub_steps adding instead of subtracting.
CellValue_AlwaysAdd(s) ==
    CASE s.op \in {"add", "sub"} -> At(s.A, s.i, s.j) + At(s.B, s.i, s.j)
      [] s.op = "multiply" -> SumProducts(s.A, s.B, s.i, s.j, s.n)

\* val of lines 109, 126 and 143.
CellValue(s) ==
    CASE s.op = "add" -> At(s.A, s.i, s.j) + At(s.B, s.i, s.j)
      [] s.op = "sub" -> At(s.A, s.i, s.j) - At(s.B, s.i, s.j)
      [] s.op = "multiply" -> SumProducts(s.A, s.B, s.i, s.j, s.n)

\* for i in range(r): for j in range(c): the cell after (i, j).
NextCell(s) ==
    IF s.j + 1 < s.cols THEN [s EXCEPT !.j = s.j + 1]
    ELSE [s EXCEPT !.i = s.i + 1, !.j = 0]

\* The body of the two loops: C[i, j] = val; steps.append(...)
WriteCell(s) ==
    IF ~CellReadable(s) THEN Raise(s, "IndexError")
    ELSE LET val == CellValue(s)
             s1 == Mutate(s, [Work(s) EXCEPT ![s.i + 1][s.j + 1] = val])
         IN  NextCell(RecordArray(s1, Desc("cell", s.i + 1, s.j + 1, Rat(val, 1))))

\* steps.append(("... completa", Matrix(C.tolist()))); return steps
FinishCells(s) == Return(RecordArray(s, Plain("complete")))

CanWriteCell(s) == s.pc = "cell" /\ s.i < s.rows /\ s.j < s.cols
CanFinishCells(s) == s.pc = "cell" /\ ~(s.i < s.rows /\ s.j < s.cols)

CellStep(s) ==
    CASE s.pc = "begin" /\ s.op = "transpose" -> TransposeSteps(s)
      [] s.pc = "begin" /\ s.op \in CellEngines -> BeginCells(s)
      [] CanWriteCell(s) -> WriteCell(s)
      [] CanFinishCells(s) -> FinishCells(s)

(***************************************************************************)
(* cramer_steps.                                                           *)
(***************************************************************************)
\* _to_rational_matrix, lines 241-242.
StrRationalMatrix(X, u) ==
    [a \in 1..NRows(X) |-> [b \in 1..NCols(X) |-> RationalOfStr(X[a][b], u)]]

\* b.reshape(-1, 1) of the 1-dimensional array held as the row <<b>>.
Reshape(X) == [a \in 1..Len(X[1]) |-> <<X[1][a]>>]

\* b after lines 230-232.
AsColumn(s) == IF s.bndim = 1 THEN Reshape(s.B) ELSE s.B

\* Ai[:, idx] = vec
ReplaceColumn(X, q, v) ==
    [a \in 1..NRows(X) |-> [b \in 1..NCols(X) |-> IF b = q + 1 THEN v[a][1] ELSE X[a][b]]]

\* Matrix(solucion_exacta): a column.
ColumnOf(xs) == [a \in 1..Len(xs) |-> <<xs[a]>>]

\* return solucion, steps, detA, det_columnas, solucion_exacta
ReturnTuple(s, solucion) ==
    [s EXCEPT !.pc = "done", !.ret = "tuple", !.solucion = solucion]

\* BeginCramer with the coefficient matrix recorded before the arguments
\* are validated.
BeginCramer_RecordFirst(s) ==
    LET b == AsColumn(s)
        h1 == Alloc(s.heap, StrRationalMatrix(s.A, s.unit))
        early == RecordOf([s EXCEPT !.heap = h1, !.coeff = Len(h1), !.M = Len(h1)],
                          Plain("augmented"), Len(h1))
    IN  IF NCols(b) # 1 THEN Raise(early, "ValueError: one column")
        ELSE IF NRows(s.A) # NCols(s.A) THEN Raise(early, "ValueError: square")
        ELSE IF NRows(b) # NRows(s.A) THEN Raise(early, "ValueError: rows")
        ELSE LET h2 == Alloc(h1, StrRationalMatrix(b, s.unit))
                 h3 == Alloc(h2, RowJoin(h1[Len(h1)], h2[Len(h2)]))
                 s1 == [s EXCEPT !.heap = h3, !.coeff = Len(h1), !.vec = Len(h2),
                                 !.M = Len(h1), !.n = NRows(s.A), !.pc = "det"]
             IN  RecordOf(s1, Plain("augmented"), Len(h3))

\* cramer_steps, lines 229-247.
BeginCramer(s) ==
    LET b == AsColumn(s)
    IN  IF NCols(b) # 1 THEN Raise(s, "ValueError: one column")
        ELSE IF NRows(s.A) # NCols(s.A) THEN Raise(s, "ValueError: square")
        ELSE IF NRows(b) # NRows(s.A) THEN Raise(s, "ValueError: rows")
        ELSE LET h1 == Alloc(s.heap, StrRationalMatrix(s.A, s.unit))
                 h2 == Alloc(h1, StrRationalMatrix(b, s.unit))
                 h3 == Alloc(h2, RowJoin(h1[Len(h1)], h2[Len(h2)]))
                 s1 == [s EXCEPT !.heap = h3, !.coeff = Len(h1), !.vec = Len(h2),
                                 !.M = Len(h1), !.n = NRows(s.A), !.pc = "det"]
             IN  RecordOf(s1, Plain("augmented"), Len(h3))

\* CramerDet raising an error on a zero determinant instead of returning.
CramerDet_Raise(s) ==
    LET d == Det(s.heap[s.coeff])
        s1 == RecordOf([s EXCEPT !.detA = d], Desc("det_A", 0, 0, d), s.coeff)
    IN  IF d = RZero
        THEN Raise(s1, "ValueError: singular")
        ELSE [s1 EXCEPT !.det_columnas = <<>>, !.solucion_exacta = <<>>,
                        !.idx = 0, !.pc = "substitute"]

\* cramer_steps, lines 249-256.
CramerDet(s) ==
    LET d == Det(s.heap[s.coeff])
        s1 == RecordOf([s EXCEPT !.detA = d], Desc("det_A", 0, 0, d), s.coeff)
    IN  IF d = RZero
        THEN ReturnTuple(RecordOf(s1, Plain("no_unique_solution"), s.coeff), "None")
        ELSE [s1 EXCEPT !.det_columnas = <<>>, !.solucion_exacta = <<>>,
                        !.idx = 0, !.pc = "substitute"]

\* One turn of the loop of lines 257-266.
CramerColumn(s) ==
    LET ai == Copy(s.heap, s.coeff)
        Ai == ReplaceColumn(ai.heap[ai.ref], s.idx, s.heap[s.vec])
        s1 == [s EXCEPT !.heap = [ai.heap EXCEPT ![ai.ref] = Ai]]
        s2 == RecordOf(s1, Desc("replace_column", s.idx + 1, 0, RZero), ai.ref)
        detAi == Det(Ai)
        s3 == RecordOf([s2 EXCEPT !.det_columnas = Append(s.det_columnas, detAi)],
                       Desc("det_Ai", s.idx + 1, 0, detAi), ai.ref)
        sol_i == RDiv(detAi, s.detA)
    IN  [s3 EXCEPT !.solucion_exacta = Append(s.solucion_exacta, sol_i),
                   !.heap = Alloc(s3.heap, <<<<sol_i>>>>),
                   !.steps = Append(s3.steps, [desc |-> Desc("x_i", s.idx + 1, 0, sol_i),
                                               ref |-> NewRef(s3.heap)]),
                   !.idx = s.idx + 1]

\* cramer_steps, lines 268-271.  solucion is the float copy of the exact
\* solution; the model keeps only that it is an array and not None.
FinishCramer(s) ==
    LET s1 == [s EXCEPT !.heap = Alloc(s.heap, ColumnOf(s.solucion_exacta))]
    IN  ReturnTuple(RecordOf(s1, Plain("solution"), Len(s1.heap)), "array")

CanCramerColumn(s) == s.pc = "substitute" /\ s.idx < s.n
CanFinishCramer(s) == s.pc = "substitute" /\ s.idx >= s.n

CramerStep(s) ==
    CASE s.pc = "begin" -> BeginCramer(s)
      [] s.pc = "det" -> CramerDet(s)
      [] CanCramerColumn(s) -> CramerColumn(s)
      [] CanFinishCramer(s) -> FinishCramer(s)

(***************************************************************************)
(* parse_matrix.  A text is a sequence of characters (strings of length    *)
(* one).  The characters of the model are those of Alphabet: on them a     *)
(* Python literal is a decimal integer, a float with an exponent (1e2),    *)
(* None, or a list or tuple of literals, and float(t) accepts the decimal  *)
(* integers and the floats with an exponent.  A parsed float is written    *)
(* <<value, 1>> and nan is written NaN.                                    *)
(***************************************************************************)
Digits == {"1", "2"}
Letters == {"x", "N", "o", "n", "e"}
Whitespace == {" ", "\n"}
Alphabet == Digits \cup Letters \cup Whitespace \cup {"[", "]", ",", ";"}
NaN == <<0, 0>>

\* The text from position p on, and the text up to position p.
From(txt, p) == SubSeq(txt, p, Len(txt))
UpTo(txt, p) == SubSeq(txt, 1, p)

\* str.strip(): the leading and the trailing whitespace removed.
RECURSIVE LStrip(_)
LStrip(txt) ==
    IF txt # <<>> /\ txt[1] \in Whitespace THEN LStrip(Tail(txt)) ELSE txt
RECURSIVE RStrip(_)
RStrip(txt) ==
    IF txt # <<>> /\ txt[Len(txt)] \in Whitespace
    THEN RStrip(UpTo(txt, Len(txt) - 1)) ELSE txt
Strip(txt) == RStrip(LStrip(txt))

\* str.replace(";", ",")
ReplaceSemicolons(txt) == [k \in 1..Len(txt) |-> IF txt[k] = ";" THEN "," ELSE txt[k]]

\* The maximal runs of characters outside seps, in order: the non-empty
\* pieces of re.split on a class of separators followed by '+'.
RECURSIVE Runs(_, _, _, _)
Runs(txt, seps, cur, acc) ==
    IF txt = <<>> THEN (IF cur = <<>> THEN acc ELSE Append(acc, cur))
    ELSE IF txt[1] \in seps
         THEN Runs(Tail(txt), seps, <<>>, IF cur = <<>> THEN acc ELSE Append(acc, cur))
         ELSE Runs(Tail(txt), seps, Append(cur, txt[1]), acc)

\* The value of a string of digits, and 10 to the power k.
RECURSIVE DecimalValue(_)
DecimalValue(word) ==
    IF word = <<>> THEN 0
    ELSE 10 * DecimalValue(UpTo(word, Len(word) - 1))
         + (IF word[Len(word)] = "1" THEN 1 ELSE 2)
RECURSIVE Pow10(_)
Pow10(k) == IF k = 0 THEN 1 ELSE 10 * Pow10(k - 1)

\* A word is a number: digits, or digits "e" digits.
AllDigits(word) == word # <<>> /\ \A k \in 1..Len(word) : word[k] \in Digits
IsNumber(word) ==
    \/ AllDigits(word)
    \/ \E k \in 2..(Len(word) - 1) :
          /\ word[k] = "e" /\ AllDigits(UpTo(word, k - 1)) /\ AllDigits(From(word, k + 1))
NumberValue(word) ==
    IF AllDigits(word) THEN DecimalValue(word)
    ELSE LET k == CHOOSE q \in 2..(Len(word) - 1) : word[q] = "e"
         IN  DecimalValue(UpTo(word, k - 1)) * Pow10(DecimalValue(From(word, k + 1)))

\* float(t) of a token: its value, or the ValueError.
FloatOfToken(tok) ==
    IF IsNumber(tok) THEN [ok |-> TRUE, v |-> <<NumberValue(tok), 1>>]
    ELSE [ok |-> FALSE, v |-> NaN]

\* The values of ast.literal_eval: a number, None, or a list or tuple (np.array
\* reads both the same way) of values.
NumberLiteral(v) == [t |-> "num", v |-> <<v, 1>>, items |-> <<>>]
NoneLiteral == [t |-> "none", v |-> NaN, items |-> <<>>]
ListLiteral(items) == [t |-> "list", v |-> NaN, items |-> items]

\* The result of reading a part of the text: the value and the position
\* after it, or the failure (SyntaxError, or ValueError for a malformed node).
Read(val, pos) == [ok |-> TRUE, val |-> val, pos |-> pos]
Malformed == [ok |-> FALSE, val |-> NoneLiteral, pos |-> 0]

\* The position of the next character that is not blank: spaces, and inside
\* brackets (depth > 0) also newlines.
RECURSIVE SkipBlank(_, _, _)
SkipBlank(txt, p, depth) ==
    IF p <= Len(txt) /\ (txt[p] = " " \/ (txt[p] = "\n" /\ depth > 0))
    THEN SkipBlank(txt, p + 1, depth) ELSE p

\* The last position of the run of letters and digits that starts at p.
RECURSIVE WordEnd(_, _)
WordEnd(txt, p) ==
    IF p < Len(txt) /\ txt[p + 1] \in Digits \cup Letters THEN WordEnd(txt, p + 1) ELSE p

\* A literal at position p: a list, a number or None.
RECURSIVE ReadAtom(_, _, _)
RECURSIVE ReadItems(_, _, _, _)
ReadAtom(txt, p, depth) ==
    IF p > Len(txt) THEN Malformed
    ELSE IF txt[p] = "[" THEN ReadItems(txt, p + 1, depth + 1, <<>>)
    ELSE IF txt[p] \in Digits \cup Letters
         THEN LET q == WordEnd(txt, p)
                  word == SubSeq(txt, p, q)
              IN  IF IsNumber(word) THEN Read(NumberLiteral(NumberValue(word)), q + 1)
                  ELSE IF word = <<"N", "o", "n", "e">> THEN Read(NoneLiteral, q + 1)
                  ELSE Malformed
    ELSE Malformed

\* The items of a list from position p on, up to its closing bracket; a
\* comma may follow the last item.
ReadItems(txt, p, depth, acc) ==
    LET q == SkipBlank(txt, p, depth)
    IN  IF q > Len(txt) THEN Malformed
        ELSE IF txt[q] = "]" THEN Read(ListLiteral(acc), q + 1)
        ELSE LET item == ReadAtom(txt, q, depth)
                 q2 == SkipBlank(txt, item.pos, depth)
             IN  IF ~item.ok \/ q2 > Len(txt) THEN Malformed
                 ELSE IF txt[q2] = "," THEN ReadItems(txt, q2 + 1, depth, Append(acc, item.val))
                 ELSE IF txt[q2] = "]" THEN Read(ListLiteral(Append(acc, item.val)), q2 + 1)
                 ELSE Malformed

\* The items of a tuple written without parentheses, after its first comma.
RECURSIVE ReadTuple(_, _, _)
ReadTuple(txt, p, acc) ==
    LET q == SkipBlank(txt, p, 0)
    IN  IF q > Len(txt) THEN Read(ListLiteral(acc), q)
        ELSE LET item == ReadAtom(txt, q, 0)
                 q2 == SkipBlank(txt, item.pos, 0)
             IN  IF ~item.ok THEN Malformed
                 ELSE IF q2 > Len(txt) THEN Read(ListLiteral(Append(acc, item.val)), q2)
                 ELSE IF txt[q2] = "," THEN ReadTuple(txt, q2 + 1, Append(acc, item.val))
                 ELSE Malformed

\* ast.literal_eval(txt): one literal, or a tuple of literals.
LiteralEval(txt) ==
    LET first == ReadAtom(txt, SkipBlank(txt, 1, 0), 0)
        q == SkipBlank(txt, first.pos, 0)
    IN  IF ~first.ok THEN Malformed
        ELSE IF q > Len(txt) THEN first
        ELSE IF txt[q] = "," THEN ReadTuple(txt, q + 1, <<first.val>>)
        ELSE Malformed

\* The shape of np.array(val, dtype=float): the lengths along each
\* dimension, or Inhomogeneous when the nesting is ragged (ValueError).
Inhomogeneous == <<-1>>
RECURSIVE NpShape(_)
NpShape(val) ==
    IF val.t # "list" THEN <<>>
    ELSE IF val.items = <<>> THEN <<0>>
    ELSE LET inner == NpShape(val.items[1])
         IN  IF inner = Inhomogeneous
                \/ \E k \in 2..Len(val.items) : NpShape(val.items[k]) # inner
             THEN Inhomogeneous
             ELSE <<Len(val.items)>> \o inner

\* The entries of np.array(val, dtype=float) of a 2-dimensional val: numpy
\* turns None into nan.
NpMatrix(val) ==
    [a \in 1..Len(val.items) |->
        [b \in 1..Len(val.items[a].items) |-> val.items[a].items[b].v]]

\* return arr
ReturnArray(s, X) == [s EXCEPT !.pc = "done", !.ret = "array", !.arr = X]

\* parse_matrix, lines 7-9.
ParseBegin(s) ==
    LET s1 == [s EXCEPT !.stripped = Strip(s.text)]
    IN  IF s1.stripped = <<>> THEN Raise(s1, "ValueError: empty")
        ELSE [s1 EXCEPT !.pc = "literal"]

\* parse_matrix, lines 10-17: the array of the literal when it has two
\* dimensions; any exception of the attempt is swallowed.
ParseLiteral(s) ==
    LET candidate == LiteralEval(ReplaceSemicolons(s.stripped))
    IN  IF candidate.ok /\ Len(NpShape(candidate.val)) = 2
        THEN ReturnArray(s, NpMatrix(candidate.val))
        ELSE [s EXCEPT !.pc = "freeform"]

\* Lines split on only the semicolons.
Lines_SemicolonOnly(txt) ==
    SelectSeq([k \in 1..Len(Runs(txt, {";"}, <<>>, <<>>)) |->
                  Strip(Runs(txt, {";"}, <<>>, <<>>)[k])],
              LAMBDA line : line # <<>>)

\* filter(None, [part.strip() for part in re.split(r"[;\n]+", s)])
Lines(txt) ==
    SelectSeq([k \in 1..Len(Runs(txt, {";", "\n"}, <<>>, <<>>)) |->
                  Strip(Runs(txt, {";", "\n"}, <<>>, <<>>)[k])],
              LAMBDA line : line # <<>>)

\* [t for t in re.split(r"[\s,]+", line) if t]
Tokens(line) == Runs(line, Whitespace \cup {","}, <<>>, <<>>)

\* parse_matrix, lines 18-27.
ParseFreeForm(s) ==
    LET lines == Lines(s.stripped)
        tokens == [k \in 1..Len(lines) |-> Tokens(lines[k])]
        parsed == [k \in 1..Len(lines) |->
                      [q \in 1..Len(tokens[k]) |-> FloatOfToken(tokens[k][q])]]
    IN  IF \E k \in 1..Len(lines) : \E q \in 1..Len(tokens[k]) : ~parsed[k][q].ok
        THEN Raise(s, "ValueError: float")
        ELSE IF lines = <<>> THEN Raise(s, "ValueError: no rows")
        ELSE IF \E k \in 1..Len(lines) : Len(tokens[k]) # Len(tokens[1])
             THEN Raise(s, "ValueError: ragged")
        ELSE ReturnArray(s, [k \in 1..Len(lines) |->
                                [q \in 1..Len(tokens[k]) |-> parsed[k][q].v]])

ParseStep(s) ==
    CASE s.pc = "begin" -> ParseBegin(s)
      [] s.pc = "literal" -> ParseLiteral(s)
      [] s.pc = "freeform" -> ParseFreeForm(s)

\* A whole call of any engine: the state it ends in.
Step(s) ==
    IF s.op \in RowEngines THEN RowStep(s)
    ELSE IF s.op = "cramer" THEN CramerStep(s)
    ELSE IF s.op = "parse_matrix" THEN ParseStep(s)
    ELSE CellStep(s)

\* s itself; comparing it makes TLC evaluate its matrices once, here, and
\* not again at every later read.
Evaluated(s) == CHOOSE x \in {s} : x = s

RECURSIVE Run(_)
Run(s) == IF s.pc = "done" THEN s ELSE Run(Evaluated(Step(s)))

(***************************************************************************)
(* The state machine: one invocation, its fields as the variables.  heap   *)
(* is the object store of the process.  peer is a second invocation that   *)
(* runs in the same process (its fields as a record, its objects in heap   *)
(* too); it is Idle, a call that has returned, unless two calls run.       *)
(***************************************************************************)
VARIABLES op, A, B, bndim, unit, heap, M, steps, rows, cols, n, r, c, piv, i, j, swaps,
          coeff, vec, idx, detA, det_columnas, solucion_exacta, solucion,
          text, stripped, arr, pc, ret, peer

vars == <<op, A, B, bndim, unit, heap, M, steps, rows, cols, n, r, c, piv, i, j, swaps,
          coeff, vec, idx, detA, det_columnas, solucion_exacta, solucion,
          text, stripped, arr, pc, ret, peer>>

Cur ==
    [op |-> op, A |-> A, B |-> B, bndim |-> bndim, unit |-> unit, heap |-> heap,
     M |-> M,
     steps |-> steps, rows |-> rows, cols |-> cols, n |-> n, r |-> r, c |-> c,
     piv |-> piv, i |-> i, j |-> j, swaps |-> swaps, coeff |-> coeff, vec |-> vec,
     idx |-> idx, detA |-> detA, det_columnas |-> det_columnas,
     solucion_exacta |-> solucion_exacta, solucion |-> solucion, text |-> text,
     stripped |-> stripped, arr |-> arr, pc |-> pc, ret |-> ret]

Idle == [Call("none", <<>>, <<>>, 2) EXCEPT !.pc = "done"]

\* The invocation becomes s and the second invocation p.
BecomesWith(s, p) ==
    \E t \in {s} : \E q \in {p} :
        /\ peer' = q
        /\ op' = t.op /\ A' = t.A /\ B' = t.B /\ bndim' = t.bndim /\ unit' = t.unit
        /\ heap' = t.heap
        /\ M' = t.M /\ steps' = t.steps /\ rows' = t.rows /\ cols' = t.cols /\ n' = t.n
        /\ r' = t.r /\ c' = t.c /\ piv' = t.piv /\ i' = t.i /\ j' = t.j
        /\ swaps' = t.swaps /\ coeff' = t.coeff /\ vec' = t.vec /\ idx' = t.idx
        /\ detA' = t.detA /\ det_columnas' = t.det_columnas
        /\ solucion_exacta' = t.solucion_exacta /\ solucion' = t.solucion
        /\ text' = t.text /\ stripped' = t.stripped /\ arr' = t.arr
        /\ pc' = t.pc /\ ret' = t.ret


Becomes(s) == BecomesWith(s, peer)

StartsWith(s, p) ==
    /\ peer = p
    /\ op = s.op /\ A = s.A /\ B = s.B /\ bndim = s.bndim /\ unit = s.unit
    /\ heap = s.heap
    /\ M = s.M /\ steps = s.steps /\ rows = s.rows /\ cols = s.cols /\ n = s.n
    /\ r = s.r /\ c = s.c /\ piv = s.piv /\ i = s.i /\ j = s.j
    /\ swaps = s.swaps /\ coeff = s.coeff /\ vec = s.vec /\ idx = s.idx
    /\ detA = s.detA /\ det_columnas = s.det_columnas
    /\ solucion_exacta = s.solucion_exacta /\ solucion = s.solucion
    /\ text = s.text /\ stripped = s.stripped /\ arr = s.arr
    /\ pc = s.pc /\ ret = s.ret

Starts(s) == StartsWith(s, Idle)

\* The input matrices: every shape up to MaxDim x MaxDim over Entries.
Dims == 1..MaxDim
MatricesOf(p, q) == [1..p -> [1..q -> Entries]]
Matrices == UNION {MatricesOf(p, q) : p \in Dims, q \in Dims}
NoMatrix == <<>>

\* A call of a row engine on a matrix.
Init ==
    \E o \in RowEngines : \E X \in Matrices : Starts(Call(o, X, NoMatrix, 2))

DoBegin == pc = "begin" /\ op \in RowEngines /\ Becomes(Begin(Cur))
DoSkipColumn == CanSkipColumn(Cur) /\ Becomes(SkipColumn(Cur))
DoFindPivot == CanFindPivot(Cur) /\ Becomes(FindPivot(Cur))
DoLoopExit == CanLoopExit(Cur) /\ Becomes(LoopExit(Cur))
DoSwapRows == CanSwapRows(Cur) /\ Becomes(SwapRows(Cur))
DoKeepRow == CanKeepRow(Cur) /\ Becomes(AfterSwap(Cur))
DoScaleRow == CanScaleRow(Cur) /\ Becomes(ScaleRow(Cur))
DoSkipScale == CanSkipScale(Cur) /\ Becomes(SkipScale(Cur))
DoEliminate == CanEliminate(Cur) /\ Becomes(Eliminate(Cur))
DoSkipRow == CanSkipRow(Cur) /\ Becomes(SkipRow(Cur))
DoNextColumn == CanNextColumn(Cur) /\ Becomes(NextColumn(Cur))
DoFinish == pc = "finish" /\ Becomes(Finish(Cur))

Next ==
    \/ DoBegin
    \/ DoSkipColumn
    \/ DoFindPivot
    \/ DoLoopExit
    \/ DoSwapRows
    \/ DoKeepRow
    \/ DoScaleRow
    \/ DoSkipScale
    \/ DoEliminate
    \/ DoSkipRow
    \/ DoNextColumn
    \/ DoFinish

Spec == Init /\ [][Next]_vars

\* A call of transpose_steps on a matrix, or of add_steps, sub_steps or
\* multiply_steps on two matrices of any two shapes.
InitCells ==
    \/ \E X \in Matrices : Starts(Call("transpose", X, NoMatrix, 2))
    \/ \E o \in CellEngines : \E X \in Matrices : \E Y \in Matrices :
          Starts(Call(o, X, Y, 2))

DoTranspose == pc = "begin" /\ op = "transpose" /\ Becomes(TransposeSteps(Cur))
DoBeginCells == pc = "begin" /\ op \in CellEngines /\ Becomes(BeginCells(Cur))
DoWriteCell == op \in CellEngines /\ CanWriteCell(Cur) /\ Becomes(WriteCell(Cur))
DoFinishCells == op \in CellEngines /\ CanFinishCells(Cur) /\ Becomes(FinishCells(Cur))

NextCells ==
    \/ DoTranspose
    \/ DoBeginCells
    \/ DoWriteCell
    \/ DoFinishCells

SpecCells == InitCells /\ [][NextCells]_vars

\* A call of transpose_steps on a matrix.
InitTranspose == \E X \in Matrices : Starts(Call("transpose", X, NoMatrix, 2))
NextTranspose == DoTranspose
SpecTranspose == InitTranspose /\ [][NextTranspose]_vars

\* The arrays b of a call of cramer_steps: the columns and the 1-dimensional
\* arrays (held as one row) of 1..MaxDim values of BEntries, and one array
\* of two columns for each number of rows (only its shape is ever read).
BEntries == {0, 1}
Vectors == UNION {[1..p -> BEntries] : p \in Dims}
Columns == {[a \in 1..Len(v) |-> <<v[a]>>] : v \in Vectors}
Wide == {Zeros(p, 2) : p \in Dims}

InitCramer ==
    \E X \in Matrices :
        \/ \E Y \in Columns \cup Wide : Starts(Call("cramer", X, Y, 2))
        \/ \E v \in Vectors : Starts(Call("cramer", X, <<v>>, 1))

DoBeginCramer == pc = "begin" /\ op = "cramer" /\ Becomes(BeginCramer(Cur))
DoCramerDet == op = "cramer" /\ pc = "det" /\ Becomes(CramerDet(Cur))
DoCramerColumn == op = "cramer" /\ CanCramerColumn(Cur) /\ Becomes(CramerColumn(Cur))
DoFinishCramer == op = "cramer" /\ CanFinishCramer(Cur) /\ Becomes(FinishCramer(Cur))

NextCramer ==
    \/ DoBeginCramer
    \/ DoCramerDet
    \/ DoCramerColumn
    \/ DoFinishCramer

SpecCramer == InitCramer /\ [][NextCramer]_vars

\* cramer_steps on systems of floats with a decimal: a square matrix of one or
\* two rows over FloatEntries and a 1-dimensional b, both of unit 10.
FloatSquares == UNION {[1..p -> [1..p -> FloatEntries]] : p \in {1, 2}}

InitCramerFloats ==
    \E X \in FloatSquares : \E v \in [1..NRows(X) -> FloatEntries] :
        Starts(FloatCall("cramer", X, <<v>>, 1, 10))

SpecCramerFloats == InitCramerFloats /\ [][NextCramer]_vars

\* The texts given to parse_matrix.  The numbers written are those of
\* ParseEntries; a row list is 1..MaxDim rows of 1..MaxDim items each, the
\* rows not all of one length unless it is rectangular.
ParseEntries == {2, 12}
Numeral(v) == IF v = 2 THEN <<"2">> ELSE <<"1", "2">>
RowsOf(S) == UNION {[1..q -> S] : q \in Dims}
RowLists(S) == UNION {[1..p -> RowsOf(S)] : p \in Dims}
Rectangular(rl) == \A k \in 1..Len(rl) : Len(rl[k]) = Len(rl[1])
Written(rl) == [a \in 1..Len(rl) |-> [b \in 1..Len(rl[a]) |-> Numeral(rl[a][b])]]

\* The texts of parts joined by the text sep.
RECURSIVE Join(_, _)
Join(parts, sep) ==
    IF parts = <<>> THEN <<>>
    ELSE IF Len(parts) = 1 THEN parts[1]
    ELSE parts[1] \o sep \o Join(Tail(parts), sep)

\* The nested bracketed literal and the free-form text of rows of tokens,
\* the values separated by valsep and the rows by rowsep.
Bracketed(tokens, valsep, rowsep) ==
    <<"[">> \o Join([k \in 1..Len(tokens) |->
                        <<"[">> \o Join(tokens[k], valsep) \o <<"]">>], rowsep)
            \o <<"]">>
FreeForm(tokens, valsep, rowsep) ==
    Join([k \in 1..Len(tokens) |-> Join(tokens[k], valsep)], rowsep)

\* The ways a literal and a free-form text are written: <<valsep, rowsep>>,
\* and each also with a space before it and a newline after it.
BracketStyles == {<<",">>, <<",", " ">>} \X {<<",">>, <<";">>}
FreeStyles == {<<" ">>, <<",">>} \X {<<";">>, <<"\n">>, <<";", " ">>}
Unpadded(tokens) ==
    {Bracketed(tokens, st[1], st[2]) : st \in BracketStyles}
        \cup {FreeForm(tokens, st[1], st[2]) : st \in FreeStyles}
Writings(tokens) ==
    Unpadded(tokens) \cup {<<" ">> \o txt \o <<"\n">> : txt \in Unpadded(tokens)}

\* Whitespace-only texts (the empty text among them) up to MaxBlank characters.
MaxBlank == 2
BlankTexts == UNION {[1..k -> Whitespace] : k \in 0..MaxBlank}

\* Texts whose rows have different lengths.
RaggedTexts ==
    UNION {Writings(Written(rl)) : rl \in {x \in RowLists(ParseEntries) : ~Rectangular(x)}}

\* Texts of a matrix with one entry replaced by a token that is no number.
BadTokens == {<<"x">>, <<"N", "o", "n", "e">>}
BadTokenTexts ==
    UNION {UNION {Writings([Written(rl) EXCEPT ![a][b] = bad]) :
                     a \in 1..Len(rl), b \in 1..Len(rl[1]), bad \in BadTokens} :
              rl \in {x \in RowLists(ParseEntries) : Rectangular(x)}}

\* Literals of one dimension (a flat list) and of three.
FlatTexts ==
    {<<"[">> \o Join(Written(<<row>>)[1], valsep) \o <<"]">> :
        row \in RowsOf(ParseEntries), valsep \in {<<",">>, <<",", " ">>}}
DeepTexts ==
    UNION {{<<"[">> \o Bracketed(Written(rl), st[1], st[2]) \o <<"]">> : st \in BracketStyles} :
              rl \in {x \in RowLists(ParseEntries) : Rectangular(x)}}

MalformedTexts == BlankTexts \cup RaggedTexts \cup BadTokenTexts \cup FlatTexts \cup DeepTexts

\* A call of parse_matrix on a text.  A is the matrix the text was written
\* from when it is a writing of a matrix, and NoMatrix otherwise.
ParseCall(X, txt) == [Call("parse_matrix", X, NoMatrix, 2) EXCEPT !.text = txt]
InitParse ==
    \/ \E rl \in RowLists(ParseEntries) :
          /\ Rectangular(rl)
          /\ \E txt \in Writings(Written(rl)) : Starts(ParseCall(rl, txt))
    \/ \E txt \in MalformedTexts : Starts(ParseCall(NoMatrix, txt))

DoParseBegin == op = "parse_matrix" /\ pc = "begin" /\ Becomes(ParseBegin(Cur))
DoParseLiteral == op = "parse_matrix" /\ pc = "literal" /\ Becomes(ParseLiteral(Cur))
DoParseFreeForm == op = "parse_matrix" /\ pc = "freeform" /\ Becomes(ParseFreeForm(Cur))

NextParse ==
    \/ DoParseBegin
    \/ DoParseLiteral
    \/ DoParseFreeForm

SpecParse == InitParse /\ [][NextParse]_vars

\* A call of a row engine, or of add_steps, sub_steps or multiply_steps on
\* a matrix and its transpose (shapes that differ unless the matrix is square).
InitLog ==
    \/ Init
    \/ \E o \in CellEngines : \E X \in Matrices : Starts(Call(o, X, Transpose(X), 2))
NextLog ==
    \/ Next
    \/ DoBeginCells
    \/ DoWriteCell
    \/ DoFinishCells
SpecLog == InitLog /\ [][NextLog]_vars

\* Two calls in one process, their steps interleaved in every order: a row
\* engine on any matrix, and beside it one of the calls of PeerCalls.
PeerMatrix == <<<<0, 2>>, <<1, 1>>>>
PeerCalls ==
    {Call("rref", PeerMatrix, NoMatrix, 2), Call("inverse", PeerMatrix, NoMatrix, 2),
     Call("cramer", PeerMatrix, <<<<1, 1>>>>, 1)}

InitPair ==
    \E o \in RowEngines : \E X \in Matrices : \E p \in PeerCalls :
        StartsWith(Call(o, X, NoMatrix, 2), p)

\* A step of the first call, and a step of the second: each runs on the
\* store as it is now and leaves its new objects in it.
StepFirst == pc # "done" /\ Becomes(Step(Cur))
StepPeer ==
    /\ peer.pc # "done"
    /\ \E after \in {Step([peer EXCEPT !.heap = heap])} :
           BecomesWith([Cur EXCEPT !.heap = after.heap], [after EXCEPT !.heap = <<>>])

NextPair ==
    \/ StepFirst
    \/ StepPeer

SpecPair == InitPair /\ [][NextPair]_vars

\* A call of any of the nine engines.
InitAll == Init \/ InitCells \/ InitCramer
NextAll == Next \/ NextCells \/ NextCramer
SpecAll == InitAll /\ [][NextAll]_vars

(***************************************************************************)
(* What the claims speak of.                                               *)
(***************************************************************************)
Done == pc = "done"
Returned == pc = "done" /\ ret = "steps"
Square == NRows(A) = NCols(A)

\* The snapshot of step k and the description kind of step k.
Snap(k) == heap[steps[k].ref]
Kind(k) == steps[k].desc.kind
Last == Len(steps)

\* The entries of the input as exact numbers.
Input == [a \in 1..NRows(A) |-> [b \in 1..NCols(A) |-> Rational(A[a][b], unit)]]

RowOperationKinds == {"swap", "scale", "eliminate"}
TerminalKinds == {"result", "determinant", "inverse_found", "not_invertible", "not_square"}

\* The first non-zero column of row a of X (1-based), 0 for a zero row.
Lead(X, a) ==
    LET nz == {b \in 1..NCols(X) : X[a][b] # RZero}
    IN  IF nz = {} THEN 0 ELSE CHOOSE b \in nz : \A q \in nz : b <= q

\* Reduced row echelon form.
IsRREF(X) ==
    /\ \A a \in 1..NRows(X) :
          Lead(X, a) # 0 =>
             /\ X[a][Lead(X, a)] = ROne
             /\ \A q \in 1..NRows(X) : q # a => X[q][Lead(X, a)] = RZero
    /\ \A a \in 1..(NRows(X) - 1) :
          /\ Lead(X, a) = 0 => Lead(X, a + 1) = 0
          /\ Lead(X, a + 1) # 0 => Lead(X, a) < Lead(X, a + 1)

\* rref_steps called on the matrix X of exact numbers (Rational(q) is q).
RrefAgain(X) == Run(StartReduce(Call("rref", X, NoMatrix, 2), X))

\* C1: for an invertible square A, inverse_steps(A) ends with [L | R] where
\* L is the identity and A * R is the identity, exactly.
C1_InverseIsExact ==
    (Returned /\ op = "inverse" /\ Square /\ Det(Input) # RZero) =>
        /\ NCols(Snap(Last)) = 2 * NRows(A)
        /\ LeftBlock(Snap(Last), NRows(A)) = Eye(NRows(A))
        /\ MatMul(Input, RightBlock(Snap(Last), NRows(A))) = Eye(NRows(A))

\* An invertible 2x2 matrix inverted after a swap, with a fraction in the inverse.
C1_Witness ==
    /\ Returned /\ op = "inverse" /\ Square /\ NRows(A) = 2 /\ Det(Input) # RZero
    /\ \E k \in 1..Last : Kind(k) = "swap"
    /\ \E a \in 1..2 : \E b \in 3..4 : Snap(Last)[a][b][2] # 1

\* C2: the value stated by the last step of determinant_steps(A) is the
\* determinant of A by cofactor expansion, for every square A.
C2_DeterminantIsCofactor ==
    (Returned /\ op = "determinant" /\ Square) =>
        /\ Kind(Last) = "determinant"
        /\ steps[Last].desc.f = Det(Input)

\* A determinant that needed a row swap and is not zero.
C2_Witness ==
    /\ Returned /\ op = "determinant" /\ Square /\ swaps = 1
    /\ steps[Last].desc.f # RZero

\* C3: rref_steps on the final matrix of rref_steps(A) gives exactly the
\* initial and the final step, both holding that matrix.
C3_RrefIdempotent ==
    (Returned /\ op = "rref") =>
        LET again == RrefAgain(Snap(Last))
        IN  /\ Len(again.steps) = 2
            /\ again.steps[1].desc.kind = "initial"
            /\ again.steps[2].desc.kind = "result"
            /\ again.heap[again.steps[1].ref] = Snap(Last)
            /\ again.heap[again.steps[2].ref] = Snap(Last)

\* An rref run that scaled and eliminated, so that its output differs from its input.
C3_Witness ==
    /\ Returned /\ op = "rref" /\ Snap(Last) # Input
    /\ \E k \in 1..Last : Kind(k) = "scale"
    /\ \E k \in 1..Last : Kind(k) = "eliminate"

\* C5: the final matrix of rref_steps(A) is in reduced row echelon form,
\* whatever the shape and rank of A.
C5_RrefIsReduced == (Returned /\ op = "rref") => IsRREF(Snap(Last))

\* A rank-deficient 2x2 input: the first column has no pivot and is skipped,
\* the second has its pivot in the first row and is cleared in the second.
C5_Witness ==
    /\ Returned /\ op = "rref" /\ NRows(A) = 2 /\ NCols(A) = 2
    /\ A[1][1] = 0 /\ A[2][1] = 0 /\ A[1][2] # 0 /\ A[2][2] # 0

\* Y is X with rows p and q exchanged; Y is X with row p divided by f; Y is
\* X with row p replaced by row p minus f times row q (rows 1-based).
IsSwapOf(Y, X, p, q) ==
    /\ p # q /\ DOMAIN Y = DOMAIN X
    /\ Y[p] = X[q] /\ Y[q] = X[p]
    /\ \A a \in DOMAIN X : (a # p /\ a # q) => Y[a] = X[a]
IsScaleOf(Y, X, p, f) ==
    /\ f # RZero /\ DOMAIN Y = DOMAIN X /\ DOMAIN Y[p] = DOMAIN X[p]
    /\ \A b \in DOMAIN X[p] : RMul(Y[p][b], f) = X[p][b]
    /\ \A a \in DOMAIN X : a # p => Y[a] = X[a]
IsCombineOf(Y, X, p, f, q) ==
    /\ p # q /\ DOMAIN Y = DOMAIN X /\ DOMAIN Y[p] = DOMAIN X[p]
    /\ \A b \in DOMAIN X[p] : RAdd(Y[p][b], RMul(f, X[q][b])) = X[p][b]
    /\ \A a \in DOMAIN X : a # p => Y[a] = X[a]

\* C7: in the log of a row engine each step after the first differs from the
\* step before it by the one row operation its description names, or (a
\* terminal step) not at all.
C7_OneOperationPerStep ==
    op \in RowEngines =>
        \A k \in 2..Last :
            LET d == steps[k].desc
            IN  CASE d.kind = "swap" -> IsSwapOf(Snap(k), Snap(k - 1), d.a, d.b)
                  [] d.kind = "scale" -> IsScaleOf(Snap(k), Snap(k - 1), d.a, d.f)
                  [] d.kind = "eliminate" ->
                        IsCombineOf(Snap(k), Snap(k - 1), d.a, d.f, d.b)
                  [] OTHER -> d.kind \in TerminalKinds /\ Snap(k) = Snap(k - 1)

\* A finished log holding a swap, a division and an elimination.
C7_Witness ==
    /\ Returned /\ op \in RowEngines
    /\ \A kind \in RowOperationKinds : \E k \in 2..Last : Kind(k) = kind

\* C9: on a non-square input determinant_steps and inverse_steps do no
\* elimination work and return a log whose last step says "not defined" and
\* whose snapshots all equal the input.
C9_NonSquareRejected ==
    (op \in {"determinant", "inverse"} /\ ~Square) =>
        /\ pc \in {"begin", "done"}
        /\ Done =>
              /\ ret = "steps" /\ Last >= 1 /\ Kind(Last) = "not_square"
              /\ \A k \in 1..Last : Snap(k) = Input /\ Kind(k) \notin RowOperationKinds

\* A returned call on a 2x1 or 1x2 input with a non-zero entry.
C9_Witness ==
    /\ Done /\ op \in {"determinant", "inverse"} /\ ~Square
    /\ \E a \in 1..NRows(A) : \E b \in 1..NCols(A) : A[a][b] # 0

\* C10: inverse_steps on a square A returns its log, and the last step
\* announces the inverse exactly when det(A) is not zero; when det(A) is zero
\* it announces that A is not invertible.
C10_InverseFoundIffRegular ==
    (Done /\ op = "inverse" /\ Square) =>
        /\ ret = "steps"
        /\ Kind(Last) \in {"inverse_found", "not_invertible"}
        /\ Kind(Last) = "inverse_found" <=> Det(Input) # RZero

\* A singular 2x2 matrix without a zero entry, reported as not invertible.
C10_Witness ==
    /\ Done /\ op = "inverse" /\ NRows(A) = 2 /\ NCols(A) = 2
    /\ \A a \in 1..2 : \A b \in 1..2 : A[a][b] # 0
    /\ Kind(Last) = "not_invertible"

\* The kinds of the first and of the last step of each engine's log.
InitialKinds == {"initial", "zeros", "original", "augmented"}
FinalKinds ==
    TerminalKinds \cup {"complete", "transposed", "solution", "no_unique_solution"}

\* C6: every log an engine returns has at least two entries, the first an
\* initial-state step and the last a separate final-result step.
C6_LogHasInitialAndFinal ==
    (Done /\ ret \in {"steps", "tuple"}) =>
        /\ Len(steps) >= 2
        /\ Kind(1) \in InitialKinds
        /\ Kind(Last) \in FinalKinds

\* The array b of the call as a column of exact numbers, when it is one.
InputColumn ==
    [a \in 1..NRows(AsColumn(Cur)) |-> <<Rational(AsColumn(Cur)[a][1], unit)>>]
ValidSystem ==
    /\ Square /\ NCols(AsColumn(Cur)) = 1 /\ NRows(AsColumn(Cur)) = NRows(A)

\* inverse_steps(A): the state it returns in, and the right block of its last step.
InverseRun == Run(FloatCall("inverse", A, NoMatrix, 2, unit))
InverseRight ==
    RightBlock(InverseRun.heap[InverseRun.steps[Len(InverseRun.steps)].ref], NRows(A))

\* det(A) # 0, for A read by the values of its floats and for A read by
\* their decimals (the same matrix when the unit is 1).
Regular == Det(Input) # RZero /\ Det(StrRationalMatrix(A, unit)) # RZero

\* C4: for a square A with det(A) # 0 and a column b of the same size, the
\* exact solution of cramer_steps(A, b) is, entry by entry, the right block
\* of the last step of inverse_steps(A) times b, and A * x = b exactly.
\* It holds on the integer-valued systems of SpecCramer and fails on those
\* of SpecCramerFloats: cramer_steps reads each float by its decimal and
\* inverse_steps by its binary value.
C4_CramerIsInverseTimesB ==
    (op = "cramer" /\ Done /\ ValidSystem /\ Regular) =>
        /\ ret = "tuple" /\ solucion # "None"
        /\ Len(solucion_exacta) = NRows(A)
        /\ ColumnOf(solucion_exacta) = MatMul(InverseRight, InputColumn)
        /\ MatMul(Input, ColumnOf(solucion_exacta)) = InputColumn

\* C8: a recorded step never changes: every action leaves the description
\* and the snapshot of every step already in the log as they were, and the
\* log only grows at its end.
C8_LogAppendOnly ==
    [][/\ Len(steps') >= Len(steps)
       /\ \A k \in 1..Len(steps) :
             /\ steps'[k] = steps[k]
             /\ heap'[steps[k].ref] = heap[steps[k].ref]]_vars

\* A log of rref_steps whose working matrix was swapped and then divided
\* after the initial step was recorded.
C8_Witness ==
    /\ op = "rref" /\ Last >= 3
    /\ Kind(2) = "swap" /\ Kind(3) = "scale"
    /\ Snap(1) # Snap(2) /\ Snap(2) # Snap(3) /\ Snap(1) = Input

\* The errors cramer_steps raises on arguments it does not accept.
ValidationErrors == {"ValueError: one column", "ValueError: square", "ValueError: rows"}

\* C11: cramer_steps(A, b) raises a validation error whenever b has more
\* than one column, A is not square or b has not as many rows as A; it
\* raises from its first statements: no step is recorded, no matrix built
\* and no determinant computed.
C11_CramerValidatesFirst ==
    (op = "cramer" /\ ~ValidSystem) =>
        /\ pc \in {"begin", "done"}
        /\ steps = <<>> /\ heap = <<>> /\ detA = RZero /\ solucion = "unset"
        /\ Done => ret \in ValidationErrors
        /\ (Done /\ NCols(AsColumn(Cur)) # 1) => ret = "ValueError: one column"

\* A square 2x2 A with a 1-dimensional b of one entry: rejected for its rows.
C11_Witness ==
    /\ op = "cramer" /\ Done /\ Square /\ NRows(A) = 2 /\ bndim = 1
    /\ ret = "ValueError: rows" /\ steps = <<>>

\* The augmented matrix [A | b] of a valid system, as exact numbers.
InputAugmented == RowJoin(Input, InputColumn)

\* C12: on a valid system cramer_steps returns its tuple and never raises;
\* the solution is the None sentinel exactly when det(A) = 0, and then the
\* tuple holds det(A) = 0, two empty lists and the log [A|b], det(A), "no
\* unique solution".
C12_SingularReturnsSentinel ==
    (op = "cramer" /\ Done /\ ValidSystem) =>
        /\ ret = "tuple"
        /\ solucion = "None" <=> Det(Input) = RZero
        /\ Det(Input) = RZero =>
              /\ detA = RZero /\ det_columnas = <<>> /\ solucion_exacta = <<>>
              /\ Last = 3
              /\ Kind(1) = "augmented" /\ Snap(1) = InputAugmented
              /\ Kind(2) = "det_A" /\ steps[2].desc.f = RZero /\ Snap(2) = Input
              /\ Kind(3) = "no_unique_solution" /\ Snap(3) = Input

\* A singular 2x2 system without a zero coefficient, answered with None.
C12_Witness ==
    /\ op = "cramer" /\ Done /\ ValidSystem /\ NRows(A) = 2
    /\ \A a \in 1..2 : \A b \in 1..2 : A[a][b] # 0
    /\ solucion = "None" /\ ret = "tuple" /\ Last = 3

\* The two operands have the shapes the engine called needs.
SameShape == NRows(A) = NRows(B) /\ NCols(A) = NCols(B)
Compatible == IF op = "multiply" THEN NCols(A) = NRows(B) ELSE SameShape

\* C13: add_steps, sub_steps and multiply_steps called on operands whose
\* shapes do not fit end in a validation error, with no step recorded and
\* no log returned.
C13_MismatchIsValidationError ==
    (op \in CellEngines /\ ~Compatible /\ Done) =>
        /\ ret \in ValidationErrors \cup {"ValueError: shape"}
        /\ steps = <<>>

\* The second operand as exact numbers, and the shape of the result.
InputB == [a \in 1..NRows(B) |-> [b \in 1..NCols(B) |-> <<B[a][b], 1>>]]
ResultRows == NRows(A)
ResultCols == IF op = "multiply" THEN NCols(B) ELSE NCols(A)

\* The number (1-based) of the cell in row a and column b (1-based) of the
\* result in row-major order, and the cells in which X and Y differ.
CellNumber(a, b) == (a - 1) * ResultCols + b
DiffCells(X, Y) ==
    {cell \in (1..NRows(X)) \X (1..NCols(X)) : X[cell[1]][cell[2]] # Y[cell[1]][cell[2]]}

\* The exact value of the cell of the result in row a and column b.
ExactCell(a, b) ==
    CASE op = "add" -> RAdd(Input[a][b], InputB[a][b])
      [] op = "sub" -> RSub(Input[a][b], InputB[a][b])
      [] op = "multiply" -> Dot(Input, InputB, a, b, NCols(A))

\* The returned log has one step per cell of the result between the
\* all-zero first step and the last step, the step of cell number k naming
\* that cell and holding the exact values of the cells 1..k and zero in the
\* others, and the last step holding the whole result.
CellLogIsExact ==
    /\ ret = "steps" /\ Last = ResultRows * ResultCols + 2
    /\ Kind(1) = "zeros" /\ Kind(Last) = "complete"
    /\ \A k \in 1..Last :
          /\ NRows(Snap(k)) = ResultRows /\ NCols(Snap(k)) = ResultCols
          /\ \A a \in 1..ResultRows : \A b \in 1..ResultCols :
                Snap(k)[a][b] = IF CellNumber(a, b) <= k - 1 THEN ExactCell(a, b)
                                ELSE RZero
    /\ \A a \in 1..ResultRows : \A b \in 1..ResultCols :
          LET d == steps[CellNumber(a, b) + 1].desc
          IN  d.kind = "cell" /\ d.a = a /\ d.b = b /\ d.f = ExactCell(a, b)

\* C14 as stated: for equal shapes add_steps and sub_steps return the log
\* of r*c + 2 steps, and the snapshot of the step of cell (i, j) differs from
\* the snapshot before it in exactly that one cell.
C14_CellStepChangesItsCell ==
    (op \in {"add", "sub"} /\ SameShape /\ Done) =>
        /\ CellLogIsExact
        /\ \A a \in 1..ResultRows : \A b \in 1..ResultCols :
              DiffCells(Snap(CellNumber(a, b) + 1), Snap(CellNumber(a, b))) = {<<a, b>>}

\* C14 amended: for equal shapes add_steps and sub_steps return the log of
\* r*c + 2 steps: the all-zero matrix, one step per cell in row-major order
\* whose snapshot differs from the one before it in no cell other than its
\* own, which holds A[i,j] + B[i,j] (A[i,j] - B[i,j]), and the full result.
C14_CellStepChangesOnlyItsCell ==
    (op \in {"add", "sub"} /\ SameShape /\ Done) =>
        /\ CellLogIsExact
        /\ \A a \in 1..ResultRows : \A b \in 1..ResultCols :
              /\ DiffCells(Snap(CellNumber(a, b) + 1), Snap(CellNumber(a, b)))
                    \subseteq {<<a, b>>}
              /\ Snap(CellNumber(a, b) + 1)[a][b] = ExactCell(a, b)

\* A subtraction of 2x2 matrices with one difference of zero, one negative
\* difference and one positive.
C14_Witness ==
    /\ op = "sub" /\ Done /\ ret = "steps" /\ NRows(A) = 2 /\ NCols(A) = 2 /\ SameShape
    /\ A[1][1] = B[1][1] /\ A[1][2] < B[1][2] /\ A[2][1] > B[2][1]

\* C15: for A of shape r x n and B of shape n x c multiply_steps returns a
\* log of r*c + 2 steps; the step of cell (i, j) holds in that cell the sum
\* over k of A[i,k] * B[k,j], leaves the cells before it as they were and the
\* cells after it zero; the last step holds the product A * B.
C15_MultiplyCellByCell ==
    (op = "multiply" /\ Compatible /\ Done) =>
        /\ CellLogIsExact
        /\ Snap(Last) = MatMul(Input, InputB)

\* A product of a 2x2 matrix and a 2x1 matrix without a zero entry.
C15_Witness ==
    /\ op = "multiply" /\ Done /\ ret = "steps"
    /\ NRows(A) = 2 /\ NCols(A) = 2 /\ NRows(B) = 2 /\ NCols(B) = 1
    /\ \A a \in 1..2 : B[a][1] # 0 /\ \A b \in 1..2 : A[a][b] # 0

\* The float array of the entries of a matrix of floats.
Floats(X) == [a \in 1..NRows(X) |-> [b \in 1..NCols(X) |-> X[a][b][1]]]

\* transpose_steps called on the second snapshot of this call.
TransposeAgain == Run(Call("transpose", Floats(Snap(2)), NoMatrix, 2))

\* C16: transpose_steps(A) returns exactly two steps, A and then the c x r
\* matrix T with T[j,i] = A[i,j]; transpose_steps(T) has A as its second
\* snapshot.
C16_TransposeTwoSteps ==
    (op = "transpose" /\ Done) =>
        /\ ret = "steps" /\ Last = 2
        /\ Kind(1) = "original" /\ Kind(2) = "transposed"
        /\ Snap(1) = Input
        /\ NRows(Snap(2)) = NCols(A) /\ NCols(Snap(2)) = NRows(A)
        /\ \A a \in 1..NRows(A) : \A b \in 1..NCols(A) : Snap(2)[b][a] = Input[a][b]
        /\ Len(TransposeAgain.steps) = 2
        /\ TransposeAgain.heap[TransposeAgain.steps[2].ref] = Input

\* A transposed 1x2 matrix of two different entries.
C16_Witness ==
    /\ op = "transpose" /\ Done /\ NRows(A) = 1 /\ NCols(A) = 2 /\ A[1][1] # A[1][2]
    /\ Last = 2 /\ NRows(Snap(2)) = 2

\* Row k (0-based) is the topmost row from r on with a non-zero entry in
\* column c of the working matrix; no row from r on has one.
TopmostNonZero(k) ==
    /\ k \in r..(rows - 1) /\ At(heap[M], k, c) # RZero
    /\ \A m \in r..(k - 1) : At(heap[M], m, c) = RZero
NoNonZeroBelow == \A k \in r..(rows - 1) : At(heap[M], k, c) = RZero

\* C20: in the four row engines the search in column c takes the topmost
\* row from r on with a non-zero entry as the pivot, whatever the sizes of
\* the entries; a column without such a row is left with r, the log and the
\* matrices unchanged; r changes only by 1, and does so whenever a column
\* that has a pivot is left.
C20_PivotIsTopmost ==
    [][/\ (pc = "column" /\ c < cols /\ r < rows) =>
             IF NoNonZeroBelow
             THEN r' = r /\ c' = c + 1 /\ steps' = steps /\ heap' = heap
             ELSE TopmostNonZero(piv') /\ r' = r /\ c' = c /\ steps' = steps
                  /\ heap' = heap
       /\ r' # r => r' = r + 1 /\ c' = c + 1 /\ pc = "eliminate"
       /\ (c' # c /\ pc # "column") => r' = r + 1
       /\ pc' \in {"scale", "eliminate"} => At(heap'[M'], r', c') # RZero]_vars

\* The first column of a 2x2 matrix was skipped and the pivot of the second
\* column found in the second row.
C20_Witness ==
    /\ op \in RowEngines /\ pc = "swap" /\ c = 1 /\ r = 0 /\ piv = 1 /\ rows = 2
    /\ steps # <<>>

\* parse_matrix called on the literal [[..],[..]] of the matrix A.
ParseOfLiteral == Run(ParseCall(A, Bracketed(Written(A), <<",">>, <<",">>)))

\* C17: every way of writing a rectangular matrix of numbers, as a nested
\* bracketed literal or as free-form text, is parsed to that matrix: the
\* array returned has its shape and its entries, and is the array returned
\* for its literal.
C17_BothSyntaxesAgree ==
    (op = "parse_matrix" /\ A # NoMatrix /\ Done) =>
        /\ ret = "array"
        /\ arr = FloatMatrix(A, 1)
        /\ ParseOfLiteral.ret = "array" /\ ParseOfLiteral.arr = arr

\* A 2x2 matrix written as free-form text with its rows on two lines.
C17_Witness ==
    /\ op = "parse_matrix" /\ Done /\ ret = "array"
    /\ A # NoMatrix /\ NRows(A) = 2 /\ NCols(A) = 2 /\ A[1][1] = 12 /\ A[2][2] = 2
    /\ stripped[1] # "[" /\ \E k \in 1..Len(stripped) : stripped[k] = "\n"

\* The literal attempt of lines 10-15 gives an array for the text.
LiteralGivesArray(txt) ==
    LET candidate == LiteralEval(ReplaceSemicolons(txt))
    IN  candidate.ok /\ Len(NpShape(candidate.val)) = 2

\* C18: parse_matrix raises, and returns no array, on an empty or
\* whitespace-only text, on rows of different lengths, on a token that is
\* no number and on a bracketed literal of one or of three dimensions; and
\* a bracketed text whose literal attempt failed is never given an array by
\* the free-form lines.
C18_MalformedIsRejected ==
    (op = "parse_matrix" /\ Done) =>
        /\ text \in MalformedTexts => (ret # "array" /\ arr = <<>>)
        /\ (stripped # <<>> /\ stripped[1] = "[" /\ ~LiteralGivesArray(stripped))
              => ret # "array"

\* What a call gives back: the log with each snapshot's matrix in place of
\* its reference, and the other values returned.
Outcome(s) ==
    [ret |-> s.ret,
     log |-> [k \in 1..Len(s.steps) |->
                 [desc |-> s.steps[k].desc, matrix |-> s.heap[s.steps[k].ref]]],
     solucion |-> s.solucion, detA |-> s.detA, det_columnas |-> s.det_columnas,
     solucion_exacta |-> s.solucion_exacta]

\* The same call run alone, from its start to its return.
Alone(s) == Run(FloatCall(s.op, s.A, s.B, s.bndim, s.unit))

\* C19: when the steps of two calls are interleaved in any order, each call
\* returns the log and the values it returns when it runs alone; two calls
\* on the same input return the same.
C19_InterleavedAsAlone ==
    (Done /\ peer.pc = "done" /\ peer.op # "none") =>
        /\ Outcome(Cur) = Outcome(Alone(Cur))
        /\ Outcome([peer EXCEPT !.heap = heap]) = Outcome(Alone(peer))
        /\ (op = peer.op /\ A = peer.A) =>
              Outcome(Cur) = Outcome([peer EXCEPT !.heap = heap])

\* Both calls have returned, the working matrix of the second was created
\* between two steps of the first, and both logs hold row operations.
C19_Witness ==
    /\ Done /\ peer.pc = "done" /\ peer.op = "inverse" /\ op = "rref"
    /\ M < peer.M /\ \E k \in 1..Last : steps[k].ref > peer.M
    /\ \E k \in 1..Last : Kind(k) = "swap"
    /\ Len(peer.steps) > 2

\* Row k (0-based) is one the engine clears for the pivot row r: every other
\* row (rref, inverse) or every row below r (upper triangular, determinant).
Applicable(k) == IF Reduced(op) THEN k # r ELSE k > r

\* C21: with the pivot of column c in row r, the elimination loop replaces
\* each applicable row i whose entry in column c is not zero by
\* row_i - factor * row_r with factor = M[i,c] / M[r,c], records one step
\* naming i, r and that factor, and leaves a zero in column c; it leaves every
\* other row and the log alone; when the loop ends column c is zero in every
\* applicable row; the engines without scaling never change a row at or
\* above r.
C21_ColumnCleared ==
    [][(op \in RowEngines /\ pc = "eliminate") =>
          /\ (i < rows /\ Applicable(i) /\ At(heap[M], i, c) # RZero) =>
                LET factor == RDiv(At(heap[M], i, c), At(heap[M], r, c))
                IN  /\ Len(steps') = Len(steps) + 1
                    /\ \A k \in 1..Len(steps) : steps'[k] = steps[k]
                    /\ steps'[Len(steps')].desc =
                          Desc("eliminate", i + 1, r + 1, factor)
                    /\ heap'[steps'[Len(steps')].ref] = heap'[M']
                    /\ IsCombineOf(heap'[M'], heap[M], i + 1, factor, r + 1)
                    /\ At(heap'[M'], i, c) = RZero
                    /\ i' = i + 1
          /\ (i < rows /\ ~(Applicable(i) /\ At(heap[M], i, c) # RZero)) =>
                steps' = steps /\ heap' = heap /\ i' = i + 1
          /\ i >= rows =>
                \A k \in 0..(rows - 1) : Applicable(k) => At(heap[M], k, c) = RZero
          /\ ~Reduced(op) =>
                /\ i > r
                /\ \A k \in 0..r : heap'[M'][k + 1] = heap[M][k + 1]]_vars

\* upper_triangular_steps has cleared the second column below the pivot row
\* r = 1 with a factor that is not an integer, and the entry above the pivot
\* is still not zero.
C21_Witness ==
    /\ op = "upper_triangular" /\ pc = "eliminate" /\ i >= rows /\ r = 1 /\ c = 1
    /\ At(heap[M], 0, c) # RZero
    /\ \E k \in 1..Last : Kind(k) = "eliminate" /\ steps[k].desc.f[2] # 1

\* The step appended by this action, when it appended one.
Appended == Len(steps') = Len(steps) + 1
NewStep == steps'[Len(steps')]

\* C22: rref_steps and inverse_steps record a division for a pivot exactly
\* when the pivot entry is not 1, the division is by that entry, and the
\* pivot entry is 1 when the elimination loop starts; a division is recorded
\* nowhere else.  upper_triangular_steps and determinant_steps never reach
\* the division and never record one, and each change of their working
\* matrix is a swap of two rows or the subtraction of a multiple of the
\* pivot row from another row.
C22_ScalingOnlyWhenReducing ==
    [][/\ pc = "scale" =>
             /\ Reduced(op)
             /\ IF At(heap[M], r, c) # ROne
                THEN /\ Appended
                     /\ NewStep.desc = Desc("scale", r + 1, 0, At(heap[M], r, c))
                     /\ IsScaleOf(heap'[M'], heap[M], r + 1, At(heap[M], r, c))
                     /\ heap'[NewStep.ref] = heap'[M']
                ELSE steps' = steps /\ heap' = heap
             /\ pc' = "eliminate" /\ At(heap'[M'], r, c) = ROne
       /\ (Appended /\ NewStep.desc.kind = "scale") => pc = "scale"
       /\ (op \in RowEngines /\ ~Reduced(op)) =>
             /\ pc' # "scale"
             /\ \A k \in 1..Len(steps') : steps'[k].desc.kind # "scale"
             /\ (M # 0 /\ heap'[M'] # heap[M]) =>
                   /\ Appended
                   /\ \/ IsSwapOf(heap'[M'], heap[M], piv + 1, r + 1)
                      \/ IsCombineOf(heap'[M'], heap[M], i + 1, NewStep.desc.f, r + 1)]_vars

\* rref_steps has swapped two rows and divided the pivot row by 2.
C22_Witness ==
    /\ op = "rref" /\ pc = "eliminate" /\ Last = 3
    /\ Kind(2) = "swap" /\ Kind(3) = "scale" /\ steps[3].desc.f = <<2, 1>>
    /\ At(heap[M], r, c) = ROne

\* The number of swap steps in the log, and a value with the sign (-1)^k.
SwapSteps == Cardinality({k \in 1..Last : Kind(k) = "swap"})
Signed(x, k) == IF k % 2 = 1 THEN RNeg(x) ELSE x

\* C23: determinant_steps on a square matrix records a swap step exactly
\* when the pivot row found is not r (the step names both rows and the
\* matrix has them exchanged), and the value stated by the final step is the
\* product of the diagonal of the final matrix times (-1)^k, k the number of
\* swap steps in the returned log.
C23_DeterminantSignFollowsSwaps ==
    /\ [](op = "determinant" /\ Square /\ Done =>
             /\ Kind(Last) = "determinant"
             /\ steps[Last].desc.f =
                   Signed(DiagonalProduct(Snap(Last), NRows(A)), SwapSteps))
    /\ [][op = "determinant" =>
             /\ pc = "swap" =>
                   IF piv # r
                   THEN /\ Appended
                        /\ NewStep.desc = Desc("swap", piv + 1, r + 1, RZero)
                        /\ IsSwapOf(heap'[M'], heap[M], piv + 1, r + 1)
                        /\ heap'[NewStep.ref] = heap'[M']
                   ELSE steps' = steps /\ heap' = heap
             /\ (Appended /\ NewStep.desc.kind = "swap") => pc = "swap" /\ piv # r]_vars

\* A determinant of a 2x2 matrix found after one swap: the diagonal product
\* is positive and the value stated is negative.
C23_Witness ==
    /\ op = "determinant" /\ Done /\ NRows(A) = 2 /\ NCols(A) = 2
    /\ SwapSteps = 1 /\ Kind(2) = "swap"
    /\ DiagonalProduct(Snap(Last), 2)[1] > 0 /\ steps[Last].desc.f[1] < 0

\* The snapshots of the log of the invocation state s, in order.
SnapshotsOf(s) == [k \in 1..Len(s.steps) |-> s.heap[s.steps[k].ref]]

\* rref_steps called on the augmented matrix [A | I] of exact numbers.
RrefOfAugmented == RrefAgain(RowJoin(Input, Eye(NRows(A))))

\* C24: for every square A the snapshots of the log of inverse_steps(A),
\* the final augmented matrix included, are those of the log of rref_steps
\* called on the n x 2n matrix [A | I].
C24_InverseIsRrefOfAugmented ==
    (Done /\ op = "inverse" /\ Square) => SnapshotsOf(Cur) = SnapshotsOf(RrefOfAugmented)

\* Every entry below the diagonal of X is zero; X is in row echelon form:
\* a row with a leading entry has above it a row whose leading entry lies
\* strictly to the left.
IsUpperTriangular(X) ==
    \A a \in 1..NRows(X) : \A b \in 1..NCols(X) : a > b => X[a][b] = RZero
IsEchelon(X) ==
    \A a \in 1..(NRows(X) - 1) :
        Lead(X, a + 1) # 0 => (Lead(X, a) # 0 /\ Lead(X, a) < Lead(X, a + 1))

\* C25: for every matrix A of any shape, rank-deficient ones included, the
\* final matrix of upper_triangular_steps(A) has only zeros below the
\* diagonal and is in row echelon form.
C25_UpperIsEchelon ==
    (Returned /\ op = "upper_triangular") =>
        /\ Kind(Last) = "result"
        /\ IsUpperTriangular(Snap(Last))
        /\ IsEchelon(Snap(Last))

\* upper_triangular_steps on a 2x2 matrix whose first column is zero and
\* whose second column has no zero: the column without a pivot was skipped
\* and the second row cleared.
C25_Witness ==
    /\ Returned /\ op = "upper_triangular" /\ NRows(A) = 2 /\ NCols(A) = 2
    /\ A[1][1] = 0 /\ A[2][1] = 0 /\ A[1][2] # 0 /\ A[2][2] # 0
    /\ Snap(Last)[2] = <<RZero, RZero>> /\ Kind(Last - 1) = "eliminate"

\* The augmented matrix X = [L | R] of the call satisfies R * A = L.
RightTimesInputIsLeft(X) ==
    MatMul(RightBlock(X, NRows(A)), Input) = LeftBlock(X, NRows(A))

\* C26: throughout inverse_steps on a square matrix A, every snapshot
\* [L | R] in the log, from the initial [A | I] to the final one, and the
\* matrix a step is recorded from satisfy R * A = L, whether or not A is
\* invertible.
C26_RightBlockTimesInput ==
    (op = "inverse" /\ Square /\ pc # "begin") =>
        /\ Snap(1) = RowJoin(Input, Eye(NRows(A)))
        /\ \A k \in 1..Last : RightTimesInputIsLeft(Snap(k))
        /\ Done => Snap(Last) = heap[M]

\* inverse_steps has returned on a singular 2x2 matrix after a division and
\* an elimination: the right block of the final matrix is not the identity.
C26_Witness ==
    /\ op = "inverse" /\ Done /\ NRows(A) = 2 /\ NCols(A) = 2
    /\ Kind(Last) = "not_invertible"
    /\ \E k \in 1..Last : Kind(k) = "scale"
    /\ \E k \in 1..Last : Kind(k) = "eliminate"
    /\ RightBlock(Snap(Last), 2) # Eye(2)

\* The number of swap steps among the first k steps of the log.
SwapsUpTo(k) == Cardinality({m \in 1..k : Kind(m) = "swap"})

\* C27: throughout determinant_steps on a square matrix A, every snapshot M
\* in the log satisfies det(M) * (-1)^s = det(A), s the number of swaps
\* recorded up to that step: a swap step negates the determinant of the
\* snapshot before it, every other step keeps it; s is the local swaps for
\* the newest step.
C27_DeterminantKeptUpToSign ==
    (op = "determinant" /\ Square /\ pc # "begin") =>
        /\ \A k \in 1..Last : Signed(Det(Snap(k)), SwapsUpTo(k)) = Det(Input)
        /\ \A k \in 2..Last :
              Det(Snap(k)) = IF Kind(k) = "swap" THEN RNeg(Det(Snap(k - 1)))
                             ELSE Det(Snap(k - 1))
        /\ swaps = SwapsUpTo(Last)

\* determinant_steps is past a swap on a 2x2 matrix whose determinant is not
\* zero: the snapshot after the swap has the determinant of A negated.
C27_Witness ==
    /\ op = "determinant" /\ pc = "eliminate" /\ NRows(A) = 2 /\ NCols(A) = 2
    /\ Last = 2 /\ Kind(2) = "swap" /\ swaps = 1
    /\ Det(Input) # RZero /\ Det(Snap(2)) = RNeg(Det(Input))

\* No entry of the matrix X is the value of a division by zero.
NoZoo(X) == \A a \in 1..NRows(X) : \A b \in 1..NCols(X) : X[a][b][2] # 0

\* C28: in the four row engines the divisor M[r,c] is not zero whenever
\* row r is about to be divided by it (rref, inverse) and whenever the loop
\* over the rows below r that computes M[i,c] / M[r,c] is running (upper
\* triangular, determinant); no matrix in the store and no recorded factor
\* holds the value of a division by zero.
C28_DivisorIsNonZero ==
    op \in RowEngines =>
        /\ pc = "scale" => At(heap[M], r, c) # RZero
        /\ (pc = "eliminate" /\ ~Reduced(op)) => At(heap[M], r, c) # RZero
        /\ \A k \in 1..Len(heap) : NoZoo(heap[k])
        /\ \A k \in 1..Last : steps[k].desc.f[2] # 0

\* determinant_steps is about to compute the factor M[i,c] / M[r,c] for a
\* row below the pivot row, with the pivot entry 2 and M[i,c] not zero.
C28_Witness ==
    /\ op = "determinant" /\ pc = "eliminate" /\ i < rows
    /\ At(heap[M], i, c) # RZero /\ At(heap[M], r, c) = <<2, 1>>

\* The smaller of two numbers; the pivots selected so far: one for every
\* r += 1 done and one for the column being worked on.
Min(x, y) == IF x < y THEN x ELSE y
PivotsSelected == r + (IF pc \in {"swap", "scale", "eliminate"} THEN 1 ELSE 0)

\* The statements the invocation s of a row engine can still run are fewer
\* than RankOf(s): each column left costs the pivot search, the swap test,
\* the division test and one pass of the elimination loop over the rows.
RankOf(s) ==
    CASE s.pc = "begin" -> (NCols(s.A) + 1) * (NRows(s.A) + 5)
      [] s.pc = "column" -> (s.cols - s.c) * (s.rows + 5) + s.rows + 4
      [] s.pc = "swap" -> (s.cols - s.c) * (s.rows + 5) + s.rows + 3
      [] s.pc = "scale" -> (s.cols - s.c) * (s.rows + 5) + s.rows + 2
      [] s.pc = "eliminate" -> (s.cols - s.c) * (s.rows + 5) + (s.rows - s.i) + 1
      [] s.pc = "finish" -> 1
      [] s.pc = "done" -> 0

\* One of the statements of a row engine can run.
Runnable ==
    \/ pc \in {"begin", "finish"}
    \/ CanSkipColumn(Cur) \/ CanFindPivot(Cur) \/ CanLoopExit(Cur)
    \/ CanSwapRows(Cur) \/ CanKeepRow(Cur) \/ CanScaleRow(Cur) \/ CanSkipScale(Cur)
    \/ CanEliminate(Cur) \/ CanSkipRow(Cur) \/ CanNextColumn(Cur)

\* C29: every call of the four row engines terminates and returns its log:
\* until it has returned a statement can run, the statement that runs next
\* lowers the natural number RankOf, and the call ends with its log
\* returned.  While it runs 0 <= r <= min(c, rows) and c <= cols, at most
\* min(rows, cols) pivots are selected, and the column only moves forward,
\* one column at a time, so that each column is visited at most once.
C29_RowEnginesTerminate ==
    /\ [](op \in RowEngines =>
             /\ RankOf(Cur) >= 0
             /\ pc # "done" => (Runnable /\ RankOf(RowStep(Cur)) < RankOf(Cur))
             /\ pc = "done" => (ret = "steps" /\ Last >= 1)
             /\ pc # "begin" =>
                   /\ 0 <= r /\ r <= Min(c, rows) /\ c <= cols
                   /\ PivotsSelected <= Min(rows, cols))
    /\ [][/\ RankOf(Cur)' < RankOf(Cur)
          /\ pc # "begin" =>
                /\ c' \in {c, c + 1}
                /\ pc' = "column" => c' = c + 1]_vars

\* A row engine has returned on a 2x2 matrix after selecting two pivots and
\* recording a row operation: r = 2 = c.
C29_Witness ==
    /\ Done /\ ret = "steps" /\ op \in RowEngines
    /\ rows = 2 /\ cols = 2 /\ r = 2 /\ c = 2 /\ Last >= 3

\* Step k of the log is neither its first step nor the last step of a
\* returned log.
Inner(k) == k > 1 /\ (k < Last \/ ~Done)

\* C30: in the logs of the four row engines every step other than the first
\* and the last is a row operation whose snapshot differs from the snapshot
\* of the step before it: a swap names two different rows that differed, a
\* division is by a factor other than 1 and an elimination has a factor
\* other than 0; the two rows swapped differ in the pivot column.
C30_NoStepIsANoOp ==
    /\ [](op \in RowEngines =>
             \A k \in 1..Last : Inner(k) =>
                 LET d == steps[k].desc
                 IN  /\ d.kind \in RowOperationKinds
                     /\ Snap(k) # Snap(k - 1)
                     /\ d.kind = "swap" =>
                           d.a # d.b /\ Snap(k - 1)[d.a] # Snap(k - 1)[d.b]
                     /\ d.kind = "scale" => d.f \notin {ROne, RZero}
                     /\ d.kind = "eliminate" => d.f # RZero)
    /\ [][(Appended /\ NewStep.desc.kind = "swap") =>
             /\ piv # r
             /\ At(heap[M], piv, c) # At(heap[M], r, c)]_vars

\* rref_steps has returned a log of five steps: a swap, a division and an
\* elimination between the initial and the final step.
C30_Witness ==
    /\ Returned /\ op = "rref" /\ Last = 5
    /\ Kind(2) = "swap" /\ Kind(3) = "scale" /\ Kind(4) = "eliminate"
    /\ Snap(4) # Snap(3) /\ Snap(5) = Snap(4)

====
